---- MODULE Spec2Model ----
(***************************************************************************)
(* A state-machine model of three parts of flang's lowering layer:         *)
(*   - the FIR operation builders and verifiers (FIROps.cpp),              *)
(*   - the symbol dependence analysis that orders a scope's variables      *)
(*     (PFTBuilder.cpp, SymbolDependenceDepth / processSymbolTable),       *)
(*   - the PFT builder and its branch analysis (PFTBuilder.cpp).           *)
(* Each part has its own specification over its own group of variables;    *)
(* the other groups stay idle.                                             *)
(***************************************************************************)
EXTENDS Integers, Sequences, FiniteSets, TLC

VARIABLES
  \* ---- FIR operations (FIROps.cpp) ----
  op,        \* the mlir::OperationState / operation under construction
  opArgs,    \* the arguments the builder was called with
  verdict,   \* "unverified" | "success" | "failure" (mlir::LogicalResult)
  diag,      \* the diagnostic emitted by the verifier ("" when none)
  \* ---- symbol dependence analysis (SymbolDependenceDepth) ----
  symtab,    \* the scope: symbols in iteration (name) order
  hasEquiv,  \* !scope.equivalenceSets().empty()
  sdd,       \* the SymbolDependenceDepth object: seen, vars, aliasSyms, stores
  symPc,     \* position in processSymbolTable
  \* ---- PFT builder (PFTBuilder) ----
  pft        \* the PFTBuilder object: the program under construction (evals,
             \* units) and the builder's stacks and cursors

varsOps == <<op, opArgs, verdict, diag>>
varsSym == <<symtab, hasEquiv, sdd, symPc>>
vars == <<op, opArgs, verdict, diag, symtab, hasEquiv, sdd, symPc, pft>>

-----------------------------------------------------------------------------
(* Generic helpers *)

Max(a, b) == IF a >= b THEN a ELSE b
Min(a, b) == IF a <= b THEN a ELSE b

RECURSIVE SumSeq(_)
SumSeq(s) == IF s = <<>> THEN 0 ELSE Head(s) + SumSeq(Tail(s))

RECURSIVE Flatten(_)
Flatten(ss) == IF ss = <<>> THEN <<>> ELSE Head(ss) \o Flatten(Tail(ss))

RECURSIVE SeqsUpTo(_, _)
SeqsUpTo(S, n) ==
  IF n = 0 THEN {<<>>}
  ELSE LET shorter == SeqsUpTo(S, n - 1)
       IN shorter \cup {Append(q, x) : q \in {r \in shorter : Len(r) = n - 1}, x \in S}

Range(f) == {f[i] : i \in DOMAIN f}

\* All orders in which the elements of a set can be listed.
Orders(S) ==
  {q \in SeqsUpTo(S, Cardinality(S)) : Len(q) = Cardinality(S) /\ Range(q) = S}

-----------------------------------------------------------------------------
(* Bounds of the FIR operation model *)

MaxResults == 2   \* longest result-type list given to IfOp::build
NumValues == 2    \* distinct mlir::Value operands
MaxCases == 2     \* longest case / destination list of a select_case
MaxRange == 2     \* longest mlir::ValueRange given to a builder

Values == 1..NumValues
Types == {"i32", "f32", "ref"}
Blocks == 1..MaxCases
CaseAttrs == {"unit", "interval", "point"}
ValueRanges == SeqsUpTo(Values, MaxRange)

NoOp == [name |-> "none"]

IdleOps == op = NoOp /\ opArgs = <<>> /\ verdict = "unverified" /\ diag = ""

-----------------------------------------------------------------------------
(* IfOp: FIROps.cpp 1433-1494 *)

\* IfOp::ensureTerminator: append the implicit fir.result to the region's block.
ensureTerminator(region) ==
  IF region = <<>> THEN << <<"fir.result">> >>
  ELSE [region EXCEPT ![Len(region)] =
          IF @ # <<>> /\ @[Len(@)] = "fir.result" THEN @ ELSE Append(@, "fir.result")]

\* Mutant of IfOpBuild: the else block is created whatever withElseRegion says.
IfOpBuildAlwaysElse(resultTypes, cond, withElseRegion) ==
  LET blk == IF resultTypes = <<>> THEN ensureTerminator(<< <<>> >>) ELSE << <<>> >>
  IN [name |-> "fir.if", operands |-> <<cond>>, types |-> resultTypes,
      regions |-> <<blk, blk>>]

\* fir::IfOp::build(builder, result, resultTypes, cond, withElseRegion)
IfOpBuild(resultTypes, cond, withElseRegion) ==
  LET thenRegion == IF resultTypes = <<>> THEN ensureTerminator(<< <<>> >>)
                    ELSE << <<>> >>
      elseRegion == IF withElseRegion
                    THEN (IF resultTypes = <<>> THEN ensureTerminator(<< <<>> >>)
                          ELSE << <<>> >>)
                    ELSE <<>>
  IN [name |-> "fir.if", operands |-> <<cond>>, types |-> resultTypes,
      regions |-> <<thenRegion, elseRegion>>]

getNumResults(o) == Len(o.types)
otherRegion(o) == o.regions[2]

IfOpElseMessage == "must have an else block if defining values"

\* Mutant of verifyIfOp: the else region is never looked at.
verifyIfOpIgnoresElse(o) == ""

\* verify(fir::IfOp): the diagnostic emitted, "" on success.
verifyIfOp(o) ==
  IF getNumResults(o) # 0 /\ otherRegion(o) = <<>> THEN IfOpElseMessage ELSE ""

BuildIfOp ==
  /\ op = NoOp
  /\ \E resultTypes \in SeqsUpTo(Types, MaxResults), cond \in Values,
        withElseRegion \in BOOLEAN :
       /\ op' = IfOpBuild(resultTypes, cond, withElseRegion)
       /\ opArgs' = [resultTypes |-> resultTypes, withElseRegion |-> withElseRegion]
  /\ UNCHANGED <<verdict, diag, varsSym, pft>>

\* IfOp::build(builder, result, cond, withElseRegion): no result types.
BuildIfOpNoResults ==
  /\ op = NoOp
  /\ \E cond \in Values, withElseRegion \in BOOLEAN :
       /\ op' = IfOpBuild(<<>>, cond, withElseRegion)
       /\ opArgs' = [resultTypes |-> <<>>, withElseRegion |-> withElseRegion]
  /\ UNCHANGED <<verdict, diag, varsSym, pft>>

VerifyIfOp ==
  /\ op.name = "fir.if"
  /\ verdict = "unverified"
  /\ diag' = verifyIfOp(op)
  /\ verdict' = IF diag' = "" THEN "success" ELSE "failure"
  /\ UNCHANGED <<op, opArgs, varsSym, pft>>

-----------------------------------------------------------------------------
(* SelectCaseOp: FIROps.cpp 1206-1282 *)

\* The number of compare operands a case attribute calls for.
caseOperandCount(attr) ==
  CASE attr = "interval" -> 2
    [] attr = "unit" -> 0
    [] OTHER -> 1

\* fir::SelectCaseOp::build with the compare operands already partitioned.
\* `added` records how many operands each addOperands loop appended.
SelectCaseOpBuild(selector, compareAttrs, cmpOperands, destinations, destOperands) ==
  LET operOffs == [i \in 1..Len(compareAttrs) |-> caseOperandCount(compareAttrs[i])]
      operSize == SumSeq(operOffs)
      cmpAdded == Flatten(cmpOperands)
      count == Len(destinations)
      opCount == Len(destOperands)
      argOffs == [i \in 1..count |-> IF i <= opCount THEN Len(destOperands[i]) ELSE 0]
      targAdded == Flatten(SubSeq(destOperands, 1, Min(count, opCount)))
      sumArgs == SumSeq(argOffs)
  IN [name |-> "fir.select_case",
      operands |-> <<selector>> \o cmpAdded \o targAdded,
      successors |-> destinations,
      attrs |-> [cases |-> compareAttrs,
                 compare_operand_offsets |-> operOffs,
                 target_operand_offsets |-> argOffs,
                 operand_segment_sizes |-> <<1, operSize, sumArgs>>],
      added |-> [compare |-> Len(cmpAdded), target |-> Len(targAdded)]]

\* The partition the flat-list builder makes: one ValueRange per attribute, cut
\* from cmpOpList by the attribute's kind.  `padded` is the memory the ranges
\* read: cmpOpList itself, followed by whatever lies past its end.
RECURSIVE partitionCmpOpList(_, _)
partitionCmpOpList(compareAttrs, padded) ==
  IF compareAttrs = <<>> THEN <<>>
  ELSE LET n == caseOperandCount(Head(compareAttrs))
       IN <<SubSeq(padded, 1, n)>>
            \o partitionCmpOpList(Tail(compareAttrs), SubSeq(padded, n + 1, Len(padded)))

neededCmpOperands(compareAttrs) ==
  SumSeq([i \in 1..Len(compareAttrs) |-> caseOperandCount(compareAttrs[i])])

BuildSelectCase ==
  /\ op = NoOp
  /\ \E selector \in Values,
        compareAttrs \in SeqsUpTo(CaseAttrs, MaxCases),
        cmpOperands \in SeqsUpTo(ValueRanges, MaxCases),
        destinations \in {[i \in 1..n |-> i] : n \in 0..MaxCases},
        destOperands \in SeqsUpTo(ValueRanges, MaxCases) :
       /\ op' = SelectCaseOpBuild(selector, compareAttrs, cmpOperands,
                                  destinations, destOperands)
       /\ opArgs' = [compareAttrs |-> compareAttrs, cmpOperands |-> cmpOperands,
                     destinations |-> destinations, destOperands |-> destOperands,
                     flat |-> FALSE]
  /\ UNCHANGED <<verdict, diag, varsSym, pft>>

\* fir::SelectCaseOp::build taking the flat compare operand list.  When the
\* list is shorter than the attributes call for, the ranges run past its end
\* and hold arbitrary values.
BuildSelectCaseFlat ==
  /\ op = NoOp
  /\ \E selector \in Values,
        compareAttrs \in SeqsUpTo(CaseAttrs, MaxCases),
        cmpOpList \in SeqsUpTo(Values, MaxRange),
        destinations \in {[i \in 1..n |-> i] : n \in 0..MaxCases},
        destOperands \in SeqsUpTo(ValueRanges, MaxCases) :
       \E tail \in SeqsUpTo(Values, 2 * MaxCases) :
         /\ Len(tail) = Max(0, neededCmpOperands(compareAttrs) - Len(cmpOpList))
         /\ op' = SelectCaseOpBuild(selector, compareAttrs,
                                    partitionCmpOpList(compareAttrs, cmpOpList \o tail),
                                    destinations, destOperands)
         /\ opArgs' = [compareAttrs |-> compareAttrs, cmpOperands |-> cmpOpList,
                       destinations |-> destinations, destOperands |-> destOperands,
                       flat |-> TRUE]
  /\ UNCHANGED <<verdict, diag, varsSym, pft>>

-----------------------------------------------------------------------------
(* parseSelectCase: FIROps.cpp 1123-1194, 1628-1636, 1652-1661 *)

\* The attributes a case list can be written with: the case attribute kinds and
\* "other", any attribute that is not a case attribute.
ParsedAttrs == CaseAttrs \cup {"other"}

\* fir::isValidCaseAttr
isValidCaseAttr(attr) == attr \in CaseAttrs

\* One case of the textual form: the attribute, the operands written after
\* it, the destination block and its argument list.
CaseTexts ==
  [attr : ParsedAttrs, opers : ValueRanges, dest : Blocks, destArg : ValueRanges]

\* Mutant of parsedOperandCount: one operand is read for a closed interval.
parsedOperandCountOne(attr) == IF attr = "unit" THEN 0 ELSE 1

\* The number of operands parseSelectCase reads after a case attribute.
parsedOperandCount(attr) ==
  CASE attr = "unit" -> 0
    [] attr = "interval" -> 2
    [] OTHER -> 1

\* parseSelectCase on the text `selector : type [ cases ]`.  The parse fails
\* when the list is empty, an attribute is not a case attribute, or the
\* operands written after an attribute are not the ones the parser reads.
parseSelectCase(text) ==
  LET cases == text.cases
      count == Len(cases)
      wellFormed ==
        /\ count > 0
        /\ \A i \in 1..count :
             /\ isValidCaseAttr(cases[i].attr)
             /\ Len(cases[i].opers) = parsedOperandCount(cases[i].attr)
      attrs == [i \in 1..count |-> cases[i].attr]
      opers == Flatten([i \in 1..count |-> cases[i].opers])
      argOffs == [i \in 1..count |-> parsedOperandCount(cases[i].attr)]
      offSize == SumSeq(argOffs)
      dests == [i \in 1..count |-> cases[i].dest]
      destArgs == [i \in 1..count |-> cases[i].destArg]
      targOffs == [i \in 1..count |-> Len(destArgs[i])]
      toffSize == SumSeq(targOffs)
  IN IF ~wellFormed THEN [failed |-> TRUE]
     ELSE [failed |-> FALSE,
           op |-> [name |-> "fir.select_case",
                   operands |-> <<text.selector>> \o opers \o Flatten(destArgs),
                   successors |-> dests,
                   attrs |-> [cases |-> attrs,
                              compare_operand_offsets |-> argOffs,
                              target_operand_offsets |-> targOffs,
                              operand_segment_sizes |-> <<1, offSize, toffSize>>],
                   added |-> [compare |-> Len(opers),
                              target |-> Len(Flatten(destArgs))]]]

\* The custom parser of fir.select_case reads one operation.  opArgs keeps the
\* case attributes, compare operands and destination arguments that were read.
ParseSelectCase ==
  /\ op = NoOp
  /\ verdict = "unverified"
  /\ \E selector \in Values, cases \in SeqsUpTo(CaseTexts, MaxCases) :
       LET parsed == parseSelectCase([selector |-> selector, cases |-> cases])
       IN IF parsed.failed
          THEN /\ verdict' = "parse failure"
               /\ UNCHANGED <<op, opArgs>>
          ELSE /\ op' = parsed.op
               /\ opArgs' = [parsed |-> TRUE, selector |-> selector,
                             compareAttrs |-> [i \in 1..Len(cases) |-> cases[i].attr],
                             cmpOperands |-> [i \in 1..Len(cases) |-> cases[i].opers],
                             destinations |-> [i \in 1..Len(cases) |-> cases[i].dest],
                             destOperands |-> [i \in 1..Len(cases) |-> cases[i].destArg]]
               /\ UNCHANGED verdict
  /\ UNCHANGED <<diag, varsSym, pft>>

-----------------------------------------------------------------------------
(* DoLoopOp, IterWhileOp, ResultOp: FIROps.cpp 649-665, 739-776, 833-851, *)
(* 924-957, 1007-1019                                                      *)

MaxIter == 2   \* longest list of loop-carried values, region arguments or results

\* The types of the values around a loop.
LoopTypes == {"index", "i1", "f32"}
TypeLists == SeqsUpTo(LoopTypes, MaxIter)

\* The operands after the lower bound, upper bound and step; the arguments of
\* the body block after the induction variable.
getIterOperands(o) == SubSeq(o.operands, 4, Len(o.operands))
getRegionIterArgs(o) == Tail(o.bodyArgs)
getNumIterOperands(o) == Len(getIterOperands(o))
getNumRegionIterArgs(o) == Len(getRegionIterArgs(o))

\* A verifier's outcome: success, or failure with the diagnostic it emitted
\* ("" when it emitted none).
VerifySuccess == [failed |-> FALSE, diag |-> ""]
emitOpError(message) == [failed |-> TRUE, diag |-> message]
SilentFailure == [failed |-> TRUE, diag |-> ""]

\* The loop over llvm::zip(iterOperands, iterArgs, opResults) of the two loop
\* verifiers, from the i-th triple on (1-based; the message counts from 0).
RECURSIVE verifyIterTypes(_, _, _, _)
verifyIterTypes(iterOperands, iterArgs, opResults, i) ==
  IF i > Min(Len(iterOperands), Min(Len(iterArgs), Len(opResults)))
  THEN VerifySuccess
  ELSE IF iterOperands[i] # opResults[i]
       THEN emitOpError("types mismatch between " \o ToString(i - 1)
                          \o "th iter operand and defined value")
       ELSE IF iterArgs[i] # opResults[i]
            THEN emitOpError("types mismatch between " \o ToString(i - 1)
                               \o "th iter region arg and defined value")
            ELSE verifyIterTypes(iterOperands, iterArgs, opResults, i + 1)

\* fir::DoLoopOp::build(builder, result, lb, ub, step, unordered, iterArgs)
DoLoopOpBuild(unordered, iterArgs) ==
  [name |-> "fir.do_loop",
   operands |-> <<"index", "index", "index">> \o iterArgs,
   types |-> iterArgs,
   bodyArgs |-> <<"index">> \o iterArgs,
   body |-> IF iterArgs = <<>> THEN <<"fir.result">> ELSE <<>>,
   unordered |-> unordered]

\* verify(fir::DoLoopOp)
verifyDoLoopOp(o) ==
  LET opNumResults == getNumResults(o)
  IN IF o.bodyArgs[1] # "index"
     THEN emitOpError("expected body first argument to be an index argument for "
                        \o "the induction variable")
     ELSE IF opNumResults = 0 THEN VerifySuccess
     ELSE IF getNumIterOperands(o) # opNumResults
     THEN emitOpError("mismatch in number of loop-carried values and defined values")
     ELSE IF getNumRegionIterArgs(o) # opNumResults
     THEN emitOpError("mismatch in number of basic block args and defined values")
     ELSE verifyIterTypes(getIterOperands(o), getRegionIterArgs(o), o.types, 1)

\* fir::IterWhileOp::build(builder, result, lb, ub, step, iterate, iterArgs).
\* `iterate` is the type of the iterate value.
IterWhileOpBuild(iterate, iterArgs) ==
  [name |-> "fir.iterate_while",
   operands |-> <<"index", "index", "index", iterate>> \o iterArgs,
   types |-> <<iterate>> \o iterArgs,
   bodyArgs |-> <<"index", iterate>> \o iterArgs,
   body |-> <<>>]

\* verify(fir::IterWhileOp)
verifyIterWhileOp(o) ==
  LET opNumResults == getNumResults(o)
  IN IF o.bodyArgs[2] # "i1"
     THEN emitOpError("expected body second argument to be an index argument for "
                        \o "the induction variable")
     ELSE IF o.bodyArgs[1] # "index"
     THEN emitOpError("expected body first argument to be an index argument for "
                        \o "the induction variable")
     ELSE IF opNumResults = 0 THEN SilentFailure
     ELSE IF getNumIterOperands(o) # opNumResults
     THEN emitOpError("mismatch in number of loop-carried values and defined values")
     ELSE IF getNumRegionIterArgs(o) # opNumResults
     THEN emitOpError("mismatch in number of basic block args and defined values")
     ELSE verifyIterTypes(getIterOperands(o), getRegionIterArgs(o), o.types, 1)

\* The loop over llvm::zip(results, operands) of verify(fir::ResultOp).
RECURSIVE verifyResultTypes(_, _, _)
verifyResultTypes(results, operands, i) ==
  IF i > Min(Len(results), Len(operands)) THEN VerifySuccess
  ELSE IF results[i] # operands[i]
       THEN emitOpError("types mismatch between result op and its parent")
       ELSE verifyResultTypes(results, operands, i + 1)

\* verify(fir::ResultOp).  `parentTypes` are the result types of the parent op.
verifyResultOp(o) ==
  IF Len(o.parentTypes) # Len(o.operands)
  THEN emitOpError("parent of result must have same arity")
  ELSE verifyResultTypes(o.parentTypes, o.operands, 1)

BuildDoLoop ==
  /\ op = NoOp
  /\ \E unordered \in BOOLEAN, iterArgs \in TypeLists :
       /\ op' = DoLoopOpBuild(unordered, iterArgs)
       /\ opArgs' = [built |-> TRUE]
  /\ UNCHANGED <<verdict, diag, varsSym, pft>>

\* A fir.do_loop that did not come from the builder (the generic textual form,
\* a rewrite): any loop-carried operands, body arguments and results.
GenericDoLoop ==
  /\ op = NoOp
  /\ \E iterOperands \in TypeLists, induction \in LoopTypes, iterArgs \in TypeLists,
        types \in TypeLists :
       /\ op' = [name |-> "fir.do_loop",
                 operands |-> <<"index", "index", "index">> \o iterOperands,
                 types |-> types,
                 bodyArgs |-> <<induction>> \o iterArgs,
                 body |-> <<>>, unordered |-> FALSE]
       /\ opArgs' = [built |-> FALSE]
  /\ UNCHANGED <<verdict, diag, varsSym, pft>>

VerifyDoLoop ==
  /\ op.name = "fir.do_loop"
  /\ verdict = "unverified"
  /\ LET outcome == verifyDoLoopOp(op)
     IN /\ verdict' = IF outcome.failed THEN "failure" ELSE "success"
        /\ diag' = outcome.diag
  /\ UNCHANGED <<op, opArgs, varsSym, pft>>

BuildIterWhile ==
  /\ op = NoOp
  /\ \E iterate \in LoopTypes, iterArgs \in TypeLists :
       /\ op' = IterWhileOpBuild(iterate, iterArgs)
       /\ opArgs' = [built |-> TRUE]
  /\ UNCHANGED <<verdict, diag, varsSym, pft>>

\* A fir.iterate_while that did not come from the builder.
GenericIterWhile ==
  /\ op = NoOp
  /\ \E iterOperands \in TypeLists, induction \in LoopTypes, iterate \in LoopTypes,
        iterArgs \in SeqsUpTo(LoopTypes, MaxIter - 1), types \in TypeLists :
       /\ op' = [name |-> "fir.iterate_while",
                 operands |-> <<"index", "index", "index">> \o iterOperands,
                 types |-> types,
                 bodyArgs |-> <<induction, iterate>> \o iterArgs,
                 body |-> <<>>]
       /\ opArgs' = [built |-> FALSE]
  /\ UNCHANGED <<verdict, diag, varsSym, pft>>

VerifyIterWhile ==
  /\ op.name = "fir.iterate_while"
  /\ verdict = "unverified"
  /\ LET outcome == verifyIterWhileOp(op)
     IN /\ verdict' = IF outcome.failed THEN "failure" ELSE "success"
        /\ diag' = outcome.diag
  /\ UNCHANGED <<op, opArgs, varsSym, pft>>

\* A fir.result with any operands in a parent op with any results.
GenericResult ==
  /\ op = NoOp
  /\ \E operands \in TypeLists, parentTypes \in TypeLists :
       /\ op' = [name |-> "fir.result", operands |-> operands,
                 parentTypes |-> parentTypes]
       /\ opArgs' = [built |-> FALSE]
  /\ UNCHANGED <<verdict, diag, varsSym, pft>>

VerifyResult ==
  /\ op.name = "fir.result"
  /\ verdict = "unverified"
  /\ LET outcome == verifyResultOp(op)
     IN /\ verdict' = IF outcome.failed THEN "failure" ELSE "success"
        /\ diag' = outcome.diag
  /\ UNCHANGED <<op, opArgs, varsSym, pft>>

-----------------------------------------------------------------------------
(* CmpfOp, CmpcOp: FIROps.cpp 276-363 *)

\* mlir::CmpFPredicate: the predicate names in the order of their enum values,
\* which count from 0.
CmpFPredicateNames ==
  <<"false", "oeq", "ogt", "oge", "olt", "ole", "one", "ord",
    "ueq", "ugt", "uge", "ult", "ule", "une", "uno", "true">>

NoPredicate == -1

\* mlir::symbolizeCmpFPredicate(name): the enum value, NoPredicate for none.
symbolizeCmpFPredicateName(name) ==
  IF \E i \in 1..Len(CmpFPredicateNames) : CmpFPredicateNames[i] = name
  THEN (CHOOSE i \in 1..Len(CmpFPredicateNames) : CmpFPredicateNames[i] = name) - 1
  ELSE NoPredicate

\* mlir::symbolizeCmpFPredicate(value)
symbolizeCmpFPredicate(value) ==
  IF value \in 0..(Len(CmpFPredicateNames) - 1) THEN value ELSE NoPredicate

\* mlir::stringifyCmpFPredicate
stringifyCmpFPredicate(predicate) == CmpFPredicateNames[predicate + 1]

\* The predicate attribute of the textual form: a string, or an attribute of
\* another kind.
PredicateAttrs ==
  [kind : {"string"}, value : Range(CmpFPredicateNames) \cup {"eq", ""}]
    \cup [kind : {"integer"}, value : {"1"}]

\* The values an Optional without a value can yield when it is read in a
\* build without assertions.
IndeterminatePredicates == 0..Len(CmpFPredicateNames)

\* fir::CmpfOp::getPredicateByName: the outcomes of the call.  With assertions
\* the process aborts on an unknown name; without them the empty Optional is
\* read and any value results.
getPredicateByName(name) ==
  LET pred == symbolizeCmpFPredicateName(name)
  IN IF pred # NoPredicate
     THEN {[aborted |-> FALSE, predicate |-> pred]}
     ELSE {[aborted |-> TRUE, predicate |-> NoPredicate]}
            \cup {[aborted |-> FALSE, predicate |-> v] : v \in IndeterminatePredicates}

\* parseCmpOp<OPTY> on `"predicate", lhs, rhs : type`
ParseCmpOp ==
  /\ op = NoOp
  /\ verdict = "unverified"
  /\ \E name \in {"fir.cmpf", "fir.cmpc"}, predicateNameAttr \in PredicateAttrs,
        lhs \in Values, rhs \in Values :
       /\ opArgs' = [predicateNameAttr |-> predicateNameAttr, printed |-> ""]
       /\ IF predicateNameAttr.kind # "string"
          THEN /\ verdict' = "parse failure"
               /\ diag' = "expected string comparison predicate attribute"
               /\ op' = op
          ELSE \E outcome \in getPredicateByName(predicateNameAttr.value) :
                 IF outcome.aborted
                 THEN /\ verdict' = "aborted"
                      /\ diag' = "invalid predicate name"
                      /\ op' = op
                 ELSE /\ op' = [name |-> name, operands |-> <<lhs, rhs>>,
                                types |-> <<"i1">>,
                                attrs |-> [predicate |-> outcome.predicate]]
                      /\ UNCHANGED <<verdict, diag>>
  /\ UNCHANGED <<varsSym, pft>>

\* printCmpOp<OPTY>: the predicate name written for the op.
PrintCmpOp ==
  /\ op.name \in {"fir.cmpf", "fir.cmpc"}
  /\ verdict = "unverified"
  /\ opArgs.printed = ""
  /\ LET predSym == symbolizeCmpFPredicate(op.attrs.predicate)
     IN IF predSym = NoPredicate
        THEN /\ verdict' = "aborted"
             /\ diag' = "invalid symbol value for predicate"
             /\ UNCHANGED opArgs
        ELSE /\ opArgs' = [opArgs EXCEPT !.printed = stringifyCmpFPredicate(predSym)]
             /\ UNCHANGED <<verdict, diag>>
  /\ UNCHANGED <<op, varsSym, pft>>

-----------------------------------------------------------------------------
(* GlobalOp: FIROps.cpp 534-585, 639-643 *)

\* GlobalOp::verifyValidLinkage's validNames
validNames == {"common", "internal", "linkonce", "weak"}

\* The bare keywords a global definition can start with; "" stands for a
\* definition that starts with its symbol name.
LinkageKeywords ==
  validNames \cup {"", "external", "private", "constant", "linkonce_odr", "Weak"}

\* Mutant of verifyValidLinkage: every keyword is accepted.
verifyAnyLinkage(linkage) == "success"

\* fir::GlobalOp::verifyValidLinkage
verifyValidLinkage(linkage) ==
  IF linkage \in validNames THEN "success" ELSE "failure"

\* The textual forms of a global definition: the optional linkage keyword, the
\* symbol name ("" when the text has no symbol reference there), the optional
\* parenthesized initial value, the optional `constant` keyword and the type.
GlobalTexts ==
  [linkage : LinkageKeywords, name : {"", "@x", "@y"}, initVal : {"", "0"},
   constant : BOOLEAN, type : Types]

\* parseGlobalOp, up to the initializer region
parseGlobalOp(text) ==
  LET withLinkage == IF text.linkage # "" THEN <<"linkage">> ELSE <<>>
      withInitVal == IF text.initVal # "" THEN <<"initVal">> ELSE <<>>
      withConstant == IF text.constant THEN <<"constant">> ELSE <<>>
      names == Range(withLinkage \o <<"symref", "sym_name">> \o withInitVal
                       \o withConstant \o <<"type">>)
      value(n) == CASE n = "linkage" -> text.linkage
                    [] n = "symref" -> text.name
                    [] n = "sym_name" -> text.name
                    [] n = "initVal" -> text.initVal
                    [] n = "constant" -> "unit"
                    [] OTHER -> text.type
  IN IF text.linkage # "" /\ verifyValidLinkage(text.linkage) # "success"
     THEN [failed |-> TRUE]
     ELSE IF text.name = "" THEN [failed |-> TRUE]
     ELSE [failed |-> FALSE,
           op |-> [name |-> "fir.global",
                   attrs |-> [n \in names |-> value(n)],
                   regions |-> 1]]

ParseGlobalOp ==
  /\ op = NoOp
  /\ verdict = "unverified"
  /\ \E text \in GlobalTexts :
       LET parsed == parseGlobalOp(text)
       IN /\ opArgs' = [text |-> text]
          /\ IF parsed.failed
             THEN verdict' = "parse failure" /\ op' = op
             ELSE op' = parsed.op /\ verdict' = verdict
  /\ UNCHANGED <<diag, varsSym, pft>>

-----------------------------------------------------------------------------
(* AllocaOp, AllocMemOp: FIROps.cpp 83-120 *)

MaxTypeDepth == 2   \* deepest nesting of reference-like types

\* mlir::Type.  ReferenceType, HeapType and PointerType hold an element type;
\* NoType is the null mlir::Type.
NoType == [kind |-> "none"]
ReferenceType(eleTy) == [kind |-> "ref", eleTy |-> eleTy]
HeapType(eleTy) == [kind |-> "heap", eleTy |-> eleTy]
PointerType(eleTy) == [kind |-> "ptr", eleTy |-> eleTy]
getEleTy(type) == type.eleTy

RECURSIVE TypesUpTo(_)
TypesUpTo(depth) ==
  IF depth = 0
  THEN {[kind |-> k] : k \in {"i32", "f32", "index", "box", "func"}}
  ELSE LET inner == TypesUpTo(depth - 1)
       IN inner \cup {ReferenceType(t) : t \in inner}
                \cup {HeapType(t) : t \in inner}
                \cup {PointerType(t) : t \in inner}

FirTypes == TypesUpTo(MaxTypeDepth)

\* fir::AllocaOp::wrapResultType
AllocaOpWrapResultType(intype) ==
  IF intype.kind = "ref" THEN NoType ELSE ReferenceType(intype)

\* Mutant of AllocMemOpWrapResultType: only references are refused.
AllocMemOpWrapRefusesRef(intype) ==
  IF intype.kind = "ref" THEN NoType ELSE HeapType(intype)

\* fir::AllocMemOp::wrapResultType
AllocMemOpWrapResultType(intype) ==
  IF intype.kind = "ref" \/ intype.kind = "heap" \/ intype.kind = "ptr"
       \/ intype.kind = "func"
  THEN NoType ELSE HeapType(intype)

\* fir::AllocaOp::getAllocatedType and fir::AllocMemOp::getAllocatedType
getAllocatedType(o) == getEleTy(o.type)

\* An alloca or allocmem of `intype` is made with the wrapped result type;
\* without a result type there is no operation.
WrapAlloca ==
  /\ op = NoOp
  /\ verdict = "unverified"
  /\ \E intype \in FirTypes :
       LET type == AllocaOpWrapResultType(intype)
       IN /\ opArgs' = [intype |-> intype, name |-> "fir.alloca"]
          /\ IF type = NoType
             THEN verdict' = "no type" /\ op' = op
             ELSE op' = [name |-> "fir.alloca", type |-> type] /\ verdict' = verdict
  /\ UNCHANGED <<diag, varsSym, pft>>

WrapAllocMem ==
  /\ op = NoOp
  /\ verdict = "unverified"
  /\ \E intype \in FirTypes :
       LET type == AllocMemOpWrapResultType(intype)
       IN /\ opArgs' = [intype |-> intype, name |-> "fir.allocmem"]
          /\ IF type = NoType
             THEN verdict' = "no type" /\ op' = op
             ELSE op' = [name |-> "fir.allocmem", type |-> type] /\ verdict' = verdict
  /\ UNCHANGED <<diag, varsSym, pft>>

-----------------------------------------------------------------------------
(* PFT builder: PFTBuilder.cpp 69-329 *)

MaxLabel == 1     \* the statement labels of a unit are 1..MaxLabel
MaxDummies == 1   \* longest dummy argument list of an entry point
MaxEntries == 2   \* most ENTRY statements in one subprogram
MaxDepth == 2     \* deepest nesting of constructs
MaxAssignLabel == 2   \* statement labels of a unit with ASSIGN statements
MaxDims == 2      \* most index names in the header of a DO CONCURRENT
MaxSpecs == 2     \* longest specifier list of an I/O statement

Last(s) == s[Len(s)]
Front(s) == SubSeq(s, 1, Len(s) - 1)

\* The closed set of parse-tree node kinds an Evaluation wraps (PFTBuilder.h).
ActionStmts ==
  {"AssignmentStmt", "ContinueStmt", "GotoStmt", "ReturnStmt", "StopStmt",
   "CycleStmt", "ExitStmt", "AssignStmt", "AssignedGotoStmt",
   "ReadStmt", "WriteStmt", "PrintStmt", "InquireStmt", "CloseStmt"}
\* The I/O statements of the model; CloseStmt stands for the statements whose
\* node is a plain specifier list (BACKSPACE, CLOSE, ENDFILE, FLUSH, OPEN,
\* REWIND, WAIT).
IoStmts == {"ReadStmt", "WriteStmt", "PrintStmt", "InquireStmt", "CloseStmt"}
\* parser::Format: a label, a star, or an expression, which is a character
\* literal, a character variable or an integer variable; "none" is the absent
\* format of a READ or WRITE, "iolength" the INQUIRE form without a list.
Formats == {"none", "star", "label", "literal", "character", "integer", "iolength"}
LabelSpecs == {"ErrLabel", "EorLabel", "EndLabel"}
ConstructStmts ==
  {"NonLabelDoStmt", "EndDoStmt", "IfThenStmt", "ElseIfStmt", "ElseStmt",
   "EndIfStmt", "SelectCaseStmt", "CaseStmt", "EndSelectStmt"}
OtherStmts == {"EntryStmt"}
Constructs == {"DoConstruct", "IfConstruct", "CaseConstruct"}
\* LoopControl of a NonLabelDoStmt: absent, integer bounds, real bounds, WHILE,
\* CONCURRENT.
LoopControls == {"none", "integer", "real", "while", "concurrent"}
\* Construct names; "" is the empty string getConstructName returns for a
\* statement without a name.
ConstructNameSeq == <<"outer", "inner">>
ConstructNames == {""} \cup Range(ConstructNameSeq)
\* The integer variables ASSIGN statements assign labels to.
AssignSymbols == {"i", "j"}
\* The statement labels a unit may use.
Labels == 1..(IF MaxLabel > MaxAssignLabel THEN MaxLabel ELSE MaxAssignLabel)

isActionStmt(kind) == kind \in ActionStmts
isConstructStmt(kind) == kind \in ConstructStmts
isConstruct(kind) == kind \in Constructs
isIntermediateConstructStmt(kind) == kind \in {"CaseStmt", "ElseIfStmt", "ElseStmt"}
isNopConstructStmt(kind) == kind \in {"CaseStmt", "ElseIfStmt", "ElseStmt", "EndIfStmt"}

\* The first and last statement of each construct in the parse tree.
initialStmt(construct) ==
  CASE construct = "DoConstruct" -> "NonLabelDoStmt"
    [] construct = "IfConstruct" -> "IfThenStmt"
    [] construct = "CaseConstruct" -> "SelectCaseStmt"
    [] OTHER -> ""
endStmt(construct) ==
  CASE construct = "DoConstruct" -> "EndDoStmt"
    [] construct = "IfConstruct" -> "EndIfStmt"
    [] construct = "CaseConstruct" -> "EndSelectStmt"
    [] OTHER -> ""

\* lower::pft::ParentVariant: the program, a function-like or module-like unit,
\* or a construct Evaluation.
ParentVariant(tag, id) == [tag |-> tag, id |-> id]

\* The dummy argument lists of an entry point; "*" is an alternate return
\* specifier, for which SubprogramDetails::dummyArgs() holds a null pointer.
DummyArgs == {"x", "y"}
DummyLists ==
  {q \in SeqsUpTo(DummyArgs \cup {"*"}, MaxDummies) :
     \A i, j \in 1..Len(q) : (i # j /\ q[i] = q[j]) => q[i] = "*"}

\* lower::pft::Evaluation{node, parentVariant, position, label}.  `position` is
\* "" for the empty CharBlock.  `v` is the label a GotoStmt or an AssignStmt
\* names, `loopControl` the control of a NonLabelDoStmt, `symbol` the
\* subprogram symbol of an EntryStmt.  The other parts of the node are set by
\* withNode: `name` is the construct name of the statement, `dims` and
\* `hasMask` describe the header of a DO CONCURRENT, `assignSymbol` is the
\* variable of an AssignStmt.  `localBlocks` is the length of the vector.
Evaluation(kind, parentVariant, position, label, v, loopControl, symbol) ==
  [kind |-> kind, parentVariant |-> parentVariant, position |-> position,
   label |-> label,
   v |-> v, loopControl |-> loopControl, symbol |-> symbol,
   parentConstruct |-> 0, inList |-> ParentVariant("none", 0),
   lexicalSuccessor |-> 0, controlSuccessor |-> 0, constructExit |-> 0,
   isNewBlock |-> FALSE, isUnstructured |-> FALSE, printIndex |-> 0,
   localBlocks |-> 0,
   name |-> "", dims |-> 0, hasMask |-> FALSE, assignSymbol |-> "",
   format |-> "none", specs |-> <<>>]

withNode(eval, name, dims, hasMask, assignSymbol) ==
  [eval EXCEPT !.name = name, !.dims = dims, !.hasMask = hasMask,
               !.assignSymbol = assignSymbol]

\* The node of an I/O statement: its format and its specifier list.  A
\* specifier has the fields spec ("Format", a label kind or "other"), v (the
\* label of a label specifier) and format (the format of a Format specifier).
withIo(eval, io) == [eval EXCEPT !.format = io.format, !.specs = io.specs]

NoSymbol == [name |-> 0, dummyArgs |-> <<>>]

\* lower::pft::FunctionLikeUnit / ModuleLikeUnit.  `functionList` is the list
\* the unit was put on: the nestedFunctions of a unit, or 0 for the program's
\* own unit list.
Unit(kind, parentVariant, functionList, symbol) ==
  [kind |-> kind, parentVariant |-> parentVariant, functionList |-> functionList,
   entryPointList |-> <<[first |-> symbol, second |-> 0]>>,
   labelEvaluationMap |-> [l \in Labels |-> 0],
   assignSymbolLabelMap |-> <<>>,
   nonUniversalDummyArguments |-> <<>>, activeEntry |-> 0, exited |-> FALSE]

\* PFTBuilder::PFTBuilder.  clDisableStructuredFir is the hidden command-line
\* option -no-structured-fir the process was started with.
PFTBuilder(disableStructuredFir) ==
  [clDisableStructuredFir |-> disableStructuredFir,
   evals |-> <<>>, units |-> <<>>,
   parentVariantStack |-> <<ParentVariant("Program", 0)>>,
   functionList |-> 0, constructAndDirectiveStack |-> <<>>,
   doConstructStack |-> <<>>, evaluationListStack |-> <<>>,
   labelEvaluationMap |-> 0, assignSymbolLabelMap |-> 0,
   constructNameMap |-> <<>>, lastLexicalEvaluation |-> 0,
   calls |-> <<>>, entries |-> <<>>]

\* What the builder is focused on: the stacks and the current function list and
\* label map.  `entries` keeps the focus found at the entry of every node that
\* is still open.
focus(b) ==
  [parentVariantStack |-> b.parentVariantStack,
   evaluationListStack |-> b.evaluationListStack,
   constructAndDirectiveStack |-> b.constructAndDirectiveStack,
   functionList |-> b.functionList,
   labelEvaluationMap |-> b.labelEvaluationMap]

IdlePFT == pft = PFTBuilder(FALSE)

\* The Evaluations of one evaluation list, in list order.
evaluationList(evals, list) ==
  SelectSeq([i \in 1..Len(evals) |-> i], LAMBDA e : evals[e].inList = list)

\* The units on the nestedFunctions list of unit u.
nestedFunctions(units, u) == {n \in 1..Len(units) : units[n].functionList = u}

\* Evaluation::getOwningProcedure
RECURSIVE getOwningProcedure(_, _)
getOwningProcedure(evals, parentVariant) ==
  CASE parentVariant.tag = "Function" -> parentVariant.id
    [] parentVariant.tag = "Eval" ->
         getOwningProcedure(evals, evals[parentVariant.id].parentVariant)
    [] OTHER -> 0

\* Mutant of linkEntryPoints: only the last entry point is linked.
linkLastEntryPoint(evals, entryPointList, entryIndex, p) ==
  IF entryIndex > 1 /\ evals[entryPointList[entryIndex].second].lexicalSuccessor = 0
  THEN [evals EXCEPT ![entryPointList[entryIndex].second].lexicalSuccessor = p]
  ELSE evals

\* The loop of addEvaluation that links the trailing entry points that have
\* no lexical successor yet to the new Evaluation p.  entryPointList[1] is the
\* primary entry, which has no ENTRY statement.
RECURSIVE linkEntryPoints(_, _, _, _)
linkEntryPoints(evals, entryPointList, entryIndex, p) ==
  IF entryIndex > 1 /\ evals[entryPointList[entryIndex].second].lexicalSuccessor = 0
  THEN linkEntryPoints(
         [evals EXCEPT ![entryPointList[entryIndex].second].lexicalSuccessor = p],
         entryPointList, entryIndex - 1, p)
  ELSE evals

\* PFTBuilder::addEvaluation: the builder after appending eval to the current
\* list; the new Evaluation is the last of evals.
addEvaluation(b, eval) ==
  LET parentConstruct == IF b.constructAndDirectiveStack # <<>>
                         THEN Last(b.constructAndDirectiveStack) ELSE 0
      unit == getOwningProcedure(b.evals, eval.parentVariant)
      entryPointList == b.units[unit].entryPointList
      p == Len(b.evals) + 1
      lexical == isActionStmt(eval.kind) \/ isConstructStmt(eval.kind)
      last == b.lastLexicalEvaluation
      placed == [eval EXCEPT
                   !.parentConstruct = parentConstruct,
                   !.inList = Last(b.evaluationListStack),
                   !.printIndex = IF lexical
                                  THEN (IF last # 0 THEN b.evals[last].printIndex + 1
                                        ELSE 1)
                                  ELSE @]
      evals1 == Append(b.evals, placed)
      evals2 == IF lexical /\ last # 0
                THEN [evals1 EXCEPT ![last].lexicalSuccessor = p] ELSE evals1
      evals3 == IF lexical
                THEN linkEntryPoints(evals2, entryPointList, Len(entryPointList), p)
                ELSE evals2
      units1 == IF ~lexical /\ eval.kind = "EntryStmt"
                THEN [b.units EXCEPT ![unit].entryPointList =
                        Append(@, [first |-> eval.symbol, second |-> p])]
                ELSE b.units
      units2 == IF eval.label # 0
                   /\ units1[b.labelEvaluationMap].labelEvaluationMap[eval.label] = 0
                THEN [units1 EXCEPT
                        ![b.labelEvaluationMap].labelEvaluationMap[eval.label] = p]
                ELSE units1
  IN [b EXCEPT !.evals = evals3, !.units = units2,
               !.lastLexicalEvaluation = IF lexical THEN p ELSE @]

\* Mutant of endFunctionBody: the terminal is appended whatever the list ends in.
\* endFunctionBody that leaves the last lexical Evaluation in place.
endFunctionBodyKeepsLast(b) ==
  IF b.evaluationListStack = <<>> THEN b
  ELSE LET list == evaluationList(b.evals, Last(b.evaluationListStack))
       IN IF list = <<>> \/ b.evals[Last(list)].kind # "ContinueStmt"
          THEN addEvaluation(b, Evaluation("ContinueStmt", Last(b.parentVariantStack),
                                           "", 0, 0, "", NoSymbol))
          ELSE b

endFunctionBodyAlways(b) ==
  IF b.evaluationListStack = <<>> THEN b
  ELSE [addEvaluation(b, Evaluation("ContinueStmt", Last(b.parentVariantStack),
                                    "", 0, 0, "", NoSymbol))
          EXCEPT !.lastLexicalEvaluation = 0]

\* PFTBuilder::endFunctionBody
endFunctionBody(b) ==
  IF b.evaluationListStack = <<>> THEN b
  ELSE LET list == evaluationList(b.evals, Last(b.evaluationListStack))
           b1 == IF list = <<>> \/ b.evals[Last(list)].kind # "ContinueStmt"
                 THEN addEvaluation(b, Evaluation("ContinueStmt",
                                                  Last(b.parentVariantStack),
                                                  "", 0, 0, "", NoSymbol))
                 ELSE b
       IN [b1 EXCEPT !.lastLexicalEvaluation = 0]

\* PFTBuilder::enterFunction (addFunction and pushEvaluationList included)
enterFunction(b, kind, symbol) ==
  LET b1 == endFunctionBody(b)
      u == Len(b1.units) + 1
      unit == Unit(kind, Last(b1.parentVariantStack), b1.functionList, symbol)
  IN [b1 EXCEPT !.units = Append(@, unit),
                !.labelEvaluationMap = u,
                !.assignSymbolLabelMap = u,
                !.functionList = u,
                !.evaluationListStack = Append(@, ParentVariant("Function", u)),
                !.parentVariantStack = Append(@, ParentVariant("Function", u)),
                !.entries = Append(@, focus(b))]

\* PFTBuilder::addUnit for a unit that is not function-like: the unit goes to
\* the end of the program's units.
addUnit(b, kind) ==
  [b EXCEPT !.units = Append(@, Unit(kind, Last(b.parentVariantStack), 0, NoSymbol))]

\* PFTBuilder::enterModule
enterModule(b) ==
  [addUnit(b, "Module") EXCEPT
     !.functionList = Len(b.units) + 1,
     !.parentVariantStack = Append(@, ParentVariant("Module", Len(b.units) + 1)),
     !.entries = Append(@, focus(b))]

\* PFTBuilder::resetFunctionState
\* resetFunctionState that leaves the function list alone outside of units.
resetFunctionStateInUnits(b) ==
  IF b.parentVariantStack = <<>> THEN b
  ELSE LET top == Last(b.parentVariantStack)
       IN CASE top.tag = "Function" ->
                 [b EXCEPT !.functionList = top.id, !.labelEvaluationMap = top.id,
                           !.assignSymbolLabelMap = top.id]
            [] top.tag = "Module" ->
                 [b EXCEPT !.functionList = top.id]
            [] OTHER -> b

resetFunctionState(b) ==
  IF b.parentVariantStack = <<>> THEN b
  ELSE LET top == Last(b.parentVariantStack)
       IN CASE top.tag = "Function" ->
                 [b EXCEPT !.functionList = top.id, !.labelEvaluationMap = top.id,
                           !.assignSymbolLabelMap = top.id]
            [] top.tag = "Module" ->
                 [b EXCEPT !.functionList = top.id]
            [] OTHER -> [b EXCEPT !.functionList = 0]

\* PFTBuilder::enterConstructOrDirective
enterConstructOrDirective(b, kind) ==
  LET b1 == addEvaluation(b, Evaluation(kind, Last(b.parentVariantStack),
                                        "", 0, 0, "", NoSymbol))
      eval == Len(b1.evals)
  IN [b1 EXCEPT !.evaluationListStack = Append(@, ParentVariant("Eval", eval)),
                !.parentVariantStack = Append(@, ParentVariant("Eval", eval)),
                !.constructAndDirectiveStack = Append(@, eval),
                !.entries = Append(@, focus(b))]

\* PFTBuilder::exitConstructOrDirective
exitConstructOrDirective(b) ==
  [b EXCEPT !.evaluationListStack = Front(@),
            !.parentVariantStack = Front(@),
            !.constructAndDirectiveStack = Front(@),
            !.entries = Front(@)]

-----------------------------------------------------------------------------
(* Branch analysis: PFTBuilder.cpp 385-752, 1002-1008 *)

\* Evaluation::lowerAsUnstructured / lowerAsStructured
lowerAsUnstructured(b, eval) == b.evals[eval].isUnstructured \/ b.clDisableStructuredFir
lowerAsStructured(b, eval) == ~lowerAsUnstructured(b, eval)

\* Evaluation::getFirstNestedEvaluation
getFirstNestedEvaluation(evals, construct) ==
  Head(evaluationList(evals, ParentVariant("Eval", construct)))

\* Evaluation::nonNopSuccessor: the lexical successor, or the exit of the
\* successor's construct when the successor is a no-op construct statement.
nonNopSuccessor(evals, eval) ==
  LET successor == evals[eval].lexicalSuccessor
  IN IF successor # 0 /\ isNopConstructStmt(evals[successor].kind)
     THEN evals[evals[successor].parentConstruct].constructExit
     ELSE successor

\* PFTBuilder::setConstructExit
\* setConstructExit that makes the exit the construct's lexical successor too.
setConstructExitAndSuccessor(evals, eval) ==
  [evals EXCEPT
     ![eval].constructExit =
       nonNopSuccessor(evals, Last(evaluationList(evals, ParentVariant("Eval", eval)))),
     ![eval].lexicalSuccessor =
       nonNopSuccessor(evals, Last(evaluationList(evals, ParentVariant("Eval", eval))))]

setConstructExit(evals, eval) ==
  [evals EXCEPT ![eval].constructExit =
     nonNopSuccessor(evals, Last(evaluationList(evals, ParentVariant("Eval", eval))))]

\* PFTBuilder::markSuccessorAsNewBlock
markSuccessorAsNewBlock(evals, eval) ==
  [evals EXCEPT ![nonNopSuccessor(evals, eval)].isNewBlock = TRUE]

\* The walk of markBranchTarget from the source's construct outwards, until the
\* target's construct or the top level is reached.
RECURSIVE enclosingOrNull(_, _, _)
enclosingOrNull(evals, sourceConstruct, targetConstruct) ==
  IF sourceConstruct # 0 /\ sourceConstruct # targetConstruct
  THEN enclosingOrNull(evals, evals[sourceConstruct].parentConstruct, targetConstruct)
  ELSE sourceConstruct

\* Mutant of markAncestors: the target and its own construct only.
markTargetAndParent(evals, eval) ==
  LET parent == evals[eval].parentConstruct
      evals1 == [evals EXCEPT ![eval].isUnstructured = TRUE]
  IN IF parent = 0 THEN evals1 ELSE [evals1 EXCEPT ![parent].isUnstructured = TRUE]

\* Mutant of markAncestors: nothing is marked.
markNothing(evals, eval) == evals

\* The loop of markBranchTarget that marks eval and all its ancestors.
RECURSIVE markAncestors(_, _)
markAncestors(evals, eval) ==
  IF eval = 0 THEN evals
  ELSE markAncestors([evals EXCEPT ![eval].isUnstructured = TRUE],
                     evals[eval].parentConstruct)

\* The first part of markBranchTarget(sourceEvaluation, targetEvaluation): the
\* source becomes unstructured and gets its control successor, the target
\* starts a new block.
markSourceAndTarget(evals, sourceEvaluation, targetEvaluation) ==
  [[evals EXCEPT
      ![sourceEvaluation].isUnstructured = TRUE,
      ![sourceEvaluation].controlSuccessor = IF @ = 0 THEN targetEvaluation ELSE @]
     EXCEPT ![targetEvaluation].isNewBlock = TRUE]

\* The second part of markBranchTarget: a branch into a construct that does
\* not hold the source marks the target and its enclosing constructs.
markTargetConstructs(evals, sourceEvaluation, targetEvaluation) ==
  LET target == evals[targetEvaluation]
      targetConstruct ==
        IF isConstructStmt(target.kind)
           /\ getFirstNestedEvaluation(evals, target.parentConstruct) = targetEvaluation
        THEN evals[target.parentConstruct].parentConstruct
        ELSE target.parentConstruct
      sourceConstruct ==
        enclosingOrNull(evals, evals[sourceEvaluation].parentConstruct, targetConstruct)
  IN IF targetConstruct # 0 /\ sourceConstruct # targetConstruct
     THEN markAncestors(evals, targetEvaluation)
     ELSE evals

\* PFTBuilder::markBranchTarget(sourceEvaluation, targetEvaluation)
markBranchTarget(evals, sourceEvaluation, targetEvaluation) ==
  markTargetConstructs(markSourceAndTarget(evals, sourceEvaluation, targetEvaluation),
                       sourceEvaluation, targetEvaluation)

\* The Evaluations whose isUnstructured flag is set.
unstructured(evals) == {e \in 1..Len(evals) : evals[e].isUnstructured}

\* The builder after a call of markBranchTarget that left the Evaluations
\* `after`.  The call is recorded in `calls` with the flags before and after it.
recordCall(b, sourceEvaluation, targetEvaluation, after) ==
  [b EXCEPT !.evals = after,
            !.calls = Append(@, [source |-> sourceEvaluation,
                                 target |-> targetEvaluation,
                                 before |-> unstructured(b.evals),
                                 after |-> unstructured(after),
                                 newBlock |-> after[targetEvaluation].isNewBlock])]

\* PFTBuilder::markBranchTarget(sourceEvaluation, label)
markBranchTargetLabel(b, sourceEvaluation, label) ==
  LET targetEvaluation == b.units[b.labelEvaluationMap].labelEvaluationMap[label]
  IN recordCall(b, sourceEvaluation, targetEvaluation,
                markBranchTarget(b.evals, sourceEvaluation, targetEvaluation))

\* PFTBuilder::insertConstructName, for a statement with the given name.
insertConstructName(b, name, parentConstruct) ==
  IF name # ""
  THEN [b EXCEPT !.constructNameMap =
          [n \in DOMAIN @ \cup {name} |-> IF n = name THEN parentConstruct ELSE @[n]]]
  ELSE b

\* Mutant of namedOrInnermostDo: the name is not looked up.
innermostDo(b, name) == Last(b.doConstructStack)

\* The construct a CYCLE or EXIT statement with the given name belongs to.
namedOrInnermostDo(b, name) ==
  IF name = "" THEN Last(b.doConstructStack) ELSE b.constructNameMap[name]

\* PFTBuilder::markBranchTarget(sourceEvaluation, targetEvaluation), recorded.
markBranchTargetEvaluation(b, sourceEvaluation, targetEvaluation) ==
  recordCall(b, sourceEvaluation, targetEvaluation,
             markBranchTarget(b.evals, sourceEvaluation, targetEvaluation))

\* The rule of analyzeBranches for a CycleStmt.
visitCycleStmt(b, eval) ==
  markBranchTargetEvaluation(
    b, eval,
    Last(evaluationList(b.evals,
                        ParentVariant("Eval", namedOrInnermostDo(b, b.evals[eval].name)))))

\* The rule of analyzeBranches for an ExitStmt.
visitExitStmt(b, eval) ==
  markBranchTargetEvaluation(
    b, eval, b.evals[namedOrInnermostDo(b, b.evals[eval].name)].constructExit)

\* Mutant of visitReturnStmt: the successor is marked whatever follows it.
visitReturnStmtMarksAlways(evals, eval) ==
  markSuccessorAsNewBlock([evals EXCEPT ![eval].isUnstructured = TRUE], eval)

\* The rule of analyzeBranches for a ReturnStmt and for a StopStmt.
visitReturnStmt(evals, eval) ==
  IF evals[evals[eval].lexicalSuccessor].lexicalSuccessor # 0
  THEN markSuccessorAsNewBlock([evals EXCEPT ![eval].isUnstructured = TRUE], eval)
  ELSE [evals EXCEPT ![eval].isUnstructured = TRUE]

\* Mutant of insertLabel: the label replaces the labels recorded before.
insertLabelOnly(assignSymbolLabelMap, sym, label) ==
  [s \in DOMAIN assignSymbolLabelMap \cup {sym} |->
     IF s = sym THEN {label} ELSE assignSymbolLabelMap[s]]

\* The rule for an AssignStmt, from `auto iter` on: the label is put into the
\* label set of the symbol.
insertLabel(assignSymbolLabelMap, sym, label) ==
  IF sym \notin DOMAIN assignSymbolLabelMap
  THEN [s \in DOMAIN assignSymbolLabelMap \cup {sym} |->
          IF s = sym THEN {label} ELSE assignSymbolLabelMap[s]]
  ELSE [assignSymbolLabelMap EXCEPT ![sym] = @ \cup {label}]

\* The rule of analyzeBranches for an AssignStmt.  No statement of the model
\* is a FormatStmt, so the target always starts a new block.
visitAssignStmt(b, eval) ==
  [b EXCEPT
     !.evals[b.units[b.labelEvaluationMap].labelEvaluationMap[b.evals[eval].v]].isNewBlock =
        TRUE,
     !.units[b.assignSymbolLabelMap].assignSymbolLabelMap =
        insertLabel(@, b.evals[eval].assignSymbol, b.evals[eval].v)]

\* The rule of analyzeBranches for an AssignedGotoStmt.
visitAssignedGotoStmt(evals, eval) ==
  markSuccessorAsNewBlock([evals EXCEPT ![eval].isUnstructured = TRUE], eval)

\* Mutant of analyzeFormatSpec: every format expression marks the statement.
analyzeAnyFormatExpr(evals, eval, format) ==
  IF format \in {"literal", "character", "integer"}
  THEN [evals EXCEPT ![eval].isUnstructured = TRUE]
  ELSE evals

\* analyzeIoBranches, the lambda analyzeFormatSpec: a format that is an
\* expression of type INTEGER marks the statement.
analyzeFormatSpec(evals, eval, format) ==
  IF format = "integer" THEN [evals EXCEPT ![eval].isUnstructured = TRUE] ELSE evals

\* analyzeIoBranches, the lambda analyzeSpecs, from the i-th specifier on.
RECURSIVE analyzeSpecs(_, _, _, _)
analyzeSpecs(b, eval, specList, i) ==
  IF i > Len(specList) THEN b
  ELSE analyzeSpecs(
         CASE specList[i].spec = "Format" ->
                [b EXCEPT !.evals = analyzeFormatSpec(@, eval, specList[i].format)]
           [] specList[i].spec \in LabelSpecs ->
                markBranchTargetLabel(b, eval, specList[i].v)
           [] OTHER -> b,
         eval, specList, i + 1)

\* PFTBuilder::analyzeIoBranches
analyzeIoBranches(b, eval) ==
  CASE b.evals[eval].kind \in {"ReadStmt", "WriteStmt"} ->
         analyzeSpecs([b EXCEPT !.evals = analyzeFormatSpec(@, eval, b.evals[eval].format)],
                      eval, b.evals[eval].specs, 1)
    [] b.evals[eval].kind = "PrintStmt" ->
         [b EXCEPT !.evals = analyzeFormatSpec(@, eval, b.evals[eval].format)]
    [] b.evals[eval].kind = "InquireStmt" ->
         IF b.evals[eval].format = "iolength" THEN b
         ELSE analyzeSpecs(b, eval, b.evals[eval].specs, 1)
    [] OTHER -> analyzeSpecs(b, eval, b.evals[eval].specs, 1)

\* The rule of analyzeBranches for a NonLabelDoStmt.
visitNonLabelDoStmt(b, parentConstruct, evaluationListOf, eval) ==
  LET pushed == [insertConstructName(b, b.evals[eval].name, parentConstruct)
                   EXCEPT !.doConstructStack = Append(@, parentConstruct)]
      loopControl == b.evals[eval].loopControl
      evals1 == [b.evals EXCEPT ![nonNopSuccessor(b.evals, eval)].isNewBlock = TRUE]
      evals2 == [evals1 EXCEPT
                   ![eval].controlSuccessor = Last(evaluationListOf),
                   ![eval].isUnstructured =
                      IF loopControl \in {"real", "while"} THEN TRUE ELSE @]
  IN IF loopControl = "none"
     THEN [pushed EXCEPT !.evals[eval].isUnstructured = TRUE]
     ELSE [pushed EXCEPT !.evals = evals2]

\* Mutant of visitEndDoStmt: the END DO statement gets no control successor.
visitEndDoStmtNoLink(b, parentConstruct, evaluationListOf, eval) ==
  [b EXCEPT !.doConstructStack = Front(@)]

\* Mutant of reserveConcurrentBlocks: a header, a body and a latch block for
\* each dimension and a mask block are put into the two lists.
reserveAllConcurrentBlocks(evals, doEval, eval) ==
  [evals EXCEPT ![doEval].localBlocks = 2 * evals[doEval].dims + 1,
                ![eval].localBlocks = evals[doEval].dims,
                ![eval].isNewBlock = @ \/ evals[doEval].hasMask]

\* The rule for an EndDoStmt, from "Unstructured concurrent loop" on: the two
\* resize calls and the new-block flag of the END DO statement.
reserveConcurrentBlocks(evals, doEval, eval) ==
  [evals EXCEPT
     ![doEval].localBlocks =
        2 * evals[doEval].dims + (IF evals[doEval].hasMask THEN 1 ELSE 0) - 1,
     ![eval].localBlocks = evals[doEval].dims - 1,
     ![eval].isNewBlock = @ \/ evals[doEval].hasMask]

\* The rule of analyzeBranches for an EndDoStmt.
visitEndDoStmt(b, parentConstruct, evaluationListOf, eval) ==
  LET doEval == Head(evaluationListOf)
      popped == [b EXCEPT !.doConstructStack = Front(@),
                          !.evals[eval].controlSuccessor = doEval]
      evals1 == [popped.evals EXCEPT ![doEval].localBlocks = @ + 1]
      evals2 == [evals1 EXCEPT
                   ![evals1[parentConstruct].constructExit].isNewBlock = TRUE]
  IN IF lowerAsStructured(popped, parentConstruct) THEN popped
     ELSE IF b.evals[doEval].loopControl = "concurrent"
          THEN [popped EXCEPT !.evals = reserveConcurrentBlocks(evals2, doEval, eval)]
          ELSE [popped EXCEPT !.evals = evals2]

\* The kind rule of analyzeBranches for one Evaluation.  The result holds the
\* builder and the loop's lastConstructStmtEvaluation and lastIfStmtEvaluation.
visit(b, parentConstruct, evaluationListOf, eval, lastConstructStmtEvaluation, lastIfStmtEvaluation) ==
  LET kind == b.evals[eval].kind
      same == [b |-> b, lastConstructStmtEvaluation |-> lastConstructStmtEvaluation,
               lastIfStmtEvaluation |-> lastIfStmtEvaluation]
      result(evals, lastConstructStmt) ==
        [b |-> [b EXCEPT !.evals = evals],
         lastConstructStmtEvaluation |-> lastConstructStmt,
         lastIfStmtEvaluation |-> lastIfStmtEvaluation]
  IN CASE kind = "GotoStmt" ->
            [same EXCEPT !.b = markBranchTargetLabel(b, eval, b.evals[eval].v)]
       [] kind = "CycleStmt" -> [same EXCEPT !.b = visitCycleStmt(b, eval)]
       [] kind = "ExitStmt" -> [same EXCEPT !.b = visitExitStmt(b, eval)]
       [] kind = "IfStmt" -> [same EXCEPT !.lastIfStmtEvaluation = eval]
       [] kind \in {"ReturnStmt", "StopStmt"} ->
            result(visitReturnStmt(b.evals, eval), lastConstructStmtEvaluation)
       [] kind = "AssignStmt" -> [same EXCEPT !.b = visitAssignStmt(b, eval)]
       [] kind = "AssignedGotoStmt" ->
            result(visitAssignedGotoStmt(b.evals, eval), lastConstructStmtEvaluation)
       [] kind = "SelectCaseStmt" ->
            [same EXCEPT !.b = insertConstructName(b, b.evals[eval].name, parentConstruct),
                         !.lastConstructStmtEvaluation = eval]
       [] kind = "CaseStmt" ->
            result([b.evals EXCEPT
                      ![eval].isNewBlock = TRUE,
                      ![lastConstructStmtEvaluation].controlSuccessor = eval],
                   eval)
       [] kind = "EndSelectStmt" ->
            result([b.evals EXCEPT ![nonNopSuccessor(b.evals, eval)].isNewBlock = TRUE], 0)
       [] kind = "NonLabelDoStmt" ->
            [same EXCEPT !.b = visitNonLabelDoStmt(b, parentConstruct, evaluationListOf, eval)]
       [] kind = "EndDoStmt" ->
            [same EXCEPT !.b = visitEndDoStmt(b, parentConstruct, evaluationListOf, eval)]
       [] kind = "IfThenStmt" ->
            [same EXCEPT
               !.b = [insertConstructName(b, b.evals[eval].name, parentConstruct)
                        EXCEPT !.evals[b.evals[eval].lexicalSuccessor].isNewBlock = TRUE],
               !.lastConstructStmtEvaluation = eval]
       [] kind = "ElseIfStmt" ->
            LET evals1 == [b.evals EXCEPT ![eval].isNewBlock = TRUE]
                evals2 == [evals1 EXCEPT ![evals1[eval].lexicalSuccessor].isNewBlock = TRUE]
            IN result([evals2 EXCEPT
                         ![lastConstructStmtEvaluation].controlSuccessor = eval],
                      eval)
       [] kind = "ElseStmt" ->
            result([b.evals EXCEPT
                      ![eval].isNewBlock = TRUE,
                      ![lastConstructStmtEvaluation].controlSuccessor = eval],
                   0)
       [] kind = "EndIfStmt" ->
            LET constructExit == b.evals[parentConstruct].constructExit
                evals1 == IF lowerAsUnstructured(b, parentConstruct)
                          THEN [b.evals EXCEPT ![constructExit].isNewBlock = TRUE]
                          ELSE b.evals
            IN IF lastConstructStmtEvaluation # 0
               THEN result([evals1 EXCEPT
                              ![lastConstructStmtEvaluation].controlSuccessor =
                                 constructExit],
                           0)
               ELSE result(evals1, lastConstructStmtEvaluation)
       [] kind = "CaseConstruct" ->
            result([setConstructExit(b.evals, eval) EXCEPT ![eval].isUnstructured = TRUE],
                   lastConstructStmtEvaluation)
       [] kind \in {"DoConstruct", "IfConstruct"} ->
            result(setConstructExit(b.evals, eval), lastConstructStmtEvaluation)
       [] kind \in IoStmts -> [same EXCEPT !.b = analyzeIoBranches(b, eval)]
       [] OTHER -> same

\* analyzeBranches, "Insert branch links for an unstructured IF statement":
\* eval follows the IF statement lastIfStmtEvaluation.
linkIfStmt(b, eval, lastIfStmtEvaluation) ==
  LET evals1 ==
        IF lowerAsUnstructured(b, eval)
        THEN [markSuccessorAsNewBlock([b.evals EXCEPT ![eval].isNewBlock = TRUE], eval)
                EXCEPT ![lastIfStmtEvaluation].isUnstructured = TRUE]
        ELSE b.evals
  IN IF lastIfStmtEvaluation # 0 /\ lastIfStmtEvaluation # eval
     THEN [evals1 EXCEPT
             ![lastIfStmtEvaluation].controlSuccessor = nonNopSuccessor(evals1, eval)]
     ELSE b.evals

\* analyzeBranches, "Set the successor of the last statement in an IF or SELECT
\* block".
setBlockSuccessor(evals, parentConstruct, eval) ==
  LET lexicalSuccessor == evals[eval].lexicalSuccessor
  IN IF /\ evals[eval].controlSuccessor = 0
        /\ lexicalSuccessor # 0
        /\ isIntermediateConstructStmt(evals[lexicalSuccessor].kind)
     THEN [evals EXCEPT
             ![eval].controlSuccessor = evals[parentConstruct].constructExit,
             ![lexicalSuccessor].isNewBlock = TRUE]
     ELSE evals

\* analyzeBranches, "Propagate isUnstructured flag to enclosing construct".
propagateUnstructured(evals, parentConstruct, eval) ==
  IF parentConstruct # 0 /\ evals[eval].isUnstructured
  THEN [evals EXCEPT ![parentConstruct].isUnstructured = TRUE]
  ELSE evals

\* analyzeBranches, "The successor of a branch starts a new block".
markBranchSuccessor(b, evals, eval) ==
  IF /\ evals[eval].controlSuccessor # 0
     /\ isActionStmt(evals[eval].kind)
     /\ lowerAsUnstructured([b EXCEPT !.evals = evals], eval)
  THEN markSuccessorAsNewBlock(evals, eval)
  ELSE evals

\* PFTBuilder::analyzeBranches(parentConstruct, evaluationList).  analyzeFrom
\* is its loop from the index-th Evaluation of the list on: analyzeVisited is
\* the loop body after the kind rule, analyzeLinks the body after the nested
\* Evaluations of a construct were analyzed.
RECURSIVE analyzeBranches(_, _, _)
RECURSIVE analyzeFrom(_, _, _, _, _, _)
RECURSIVE analyzeVisited(_, _, _, _)
RECURSIVE analyzeLinks(_, _, _, _, _, _)
analyzeBranches(b, parentConstruct, evaluationListOf) ==
  analyzeFrom(b, parentConstruct, evaluationListOf, 1, 0, 0)
analyzeFrom(b, parentConstruct, evaluationListOf, index, lastConstructStmtEvaluation, lastIfStmtEvaluation) ==
  IF index > Len(evaluationListOf) THEN b
  ELSE analyzeVisited(parentConstruct, evaluationListOf, index,
                      visit(b, parentConstruct, evaluationListOf, evaluationListOf[index],
                            lastConstructStmtEvaluation, lastIfStmtEvaluation))
\* Mutant of analyzeVisited: the analysis of a nested construct shares
\* lastConstructStmtEvaluation, which its last statement leaves null.
analyzeVisitedSharedState(parentConstruct, evaluationListOf, index, visited) ==
  LET eval == evaluationListOf[index]
  IN analyzeLinks(
       parentConstruct, evaluationListOf, index,
       IF isConstruct(visited.b.evals[eval].kind)
       THEN 0 ELSE visited.lastConstructStmtEvaluation,
       visited.lastIfStmtEvaluation,
       IF isConstruct(visited.b.evals[eval].kind)
       THEN analyzeBranches(visited.b, eval,
                            evaluationList(visited.b.evals, ParentVariant("Eval", eval)))
       ELSE visited.b)
analyzeVisited(parentConstruct, evaluationListOf, index, visited) ==
  LET eval == evaluationListOf[index]
  IN analyzeLinks(
       parentConstruct, evaluationListOf, index,
       visited.lastConstructStmtEvaluation, visited.lastIfStmtEvaluation,
       \* Analyze construct evaluations.
       IF isConstruct(visited.b.evals[eval].kind)
       THEN analyzeBranches(visited.b, eval,
                            evaluationList(visited.b.evals, ParentVariant("Eval", eval)))
       ELSE visited.b)
analyzeLinks(parentConstruct, evaluationListOf, index, lastConstructStmtEvaluation, lastIfStmtEvaluation, b) ==
  LET eval == evaluationListOf[index]
      afterIf == lastIfStmtEvaluation # 0 /\ lastIfStmtEvaluation # eval
  IN analyzeFrom(
       [b EXCEPT !.evals =
          markBranchSuccessor(
            b,
            propagateUnstructured(
              setBlockSuccessor(linkIfStmt(b, eval, lastIfStmtEvaluation),
                                parentConstruct, eval),
              parentConstruct, eval),
            eval)],
       parentConstruct, evaluationListOf, index + 1, lastConstructStmtEvaluation,
       IF afterIf THEN 0 ELSE lastIfStmtEvaluation)

\* The dummy arguments of the entry points of a unit, alternate returns left out.
dummyArguments(unit) ==
  UNION {{arg \in Range(unit.entryPointList[i].first.dummyArgs) : arg # "*"} :
           i \in 1..Len(unit.entryPointList)}

\* Mutant of countDummyArgs: an argument seen again is not counted again.
countDummyArgsOnce(dummyCountMap, dummyArgs, k) ==
  [arg \in DOMAIN dummyCountMap \cup (Range(dummyArgs) \ {"*"}) |-> 1]

\* The inner loop of processEntryPoints, over the dummy arguments of the
\* active entry from the k-th on.
RECURSIVE countDummyArgs(_, _, _)
countDummyArgs(dummyCountMap, dummyArgs, k) ==
  IF k > Len(dummyArgs) THEN dummyCountMap
  ELSE LET arg == dummyArgs[k]
       IN countDummyArgs(
            IF arg = "*" THEN dummyCountMap
            ELSE IF arg \notin DOMAIN dummyCountMap
                 THEN [a \in DOMAIN dummyCountMap \cup {arg} |->
                         IF a = arg THEN 1 ELSE dummyCountMap[a]]
                 ELSE [dummyCountMap EXCEPT ![arg] = @ + 1],
            dummyArgs, k + 1)

\* The outer loop of processEntryPoints, over the entry points from entryIndex
\* on (0-based, as setActiveEntry counts them).
RECURSIVE countEntryPoints(_, _, _)
countEntryPoints(unit, entryIndex, dummyCountMap) ==
  IF entryIndex >= Len(unit.entryPointList)
  THEN [unit |-> unit, dummyCountMap |-> dummyCountMap]
  ELSE LET active == [unit EXCEPT !.activeEntry = entryIndex]
           details == active.entryPointList[active.activeEntry + 1].first
       IN countEntryPoints(active, entryIndex + 1,
                           countDummyArgs(dummyCountMap, details.dummyArgs, 1))

\* PFTBuilder::processEntryPoints.  `order` is the order in which dummyCountMap,
\* a DenseMap, is iterated.
processEntryPoints(b, order) ==
  LET front == Head(evaluationList(b.evals, Last(b.evaluationListStack)))
      unit == getOwningProcedure(b.evals, b.evals[front].parentVariant)
      entryCount == Len(b.units[unit].entryPointList)
      counted == countEntryPoints(b.units[unit], 0, <<>>)
  IN IF entryCount = 1 THEN b
     ELSE [b EXCEPT
             !.units[unit] =
                [counted.unit EXCEPT
                   !.activeEntry = 0,
                   !.nonUniversalDummyArguments =
                      @ \o SelectSeq(order,
                                     LAMBDA arg : counted.dummyCountMap[arg] < entryCount)]]

\* PFTBuilder::exitFunction
exitFunction(b, order) ==
  LET b1 == endFunctionBody(b)
      b2 == analyzeBranches(b1, 0, evaluationList(b1.evals, Last(b1.evaluationListStack)))
      b3 == processEntryPoints(b2, order)
      unit == Last(b3.parentVariantStack).id
      b4 == [b3 EXCEPT !.evaluationListStack = Front(@),
                       !.labelEvaluationMap = 0,
                       !.assignSymbolLabelMap = 0,
                       !.parentVariantStack = Front(@),
                       !.units[unit].exited = TRUE,
                       !.entries = Front(@)]
  IN resetFunctionState(b4)

-----------------------------------------------------------------------------
(* The walk of the parse tree: Pre and Post, PFTBuilder.cpp 81-117 *)

\* The function-like unit the walk is in, 0 when it is in none.
currentFunction(b) == getOwningProcedure(b.evals, Last(b.parentVariantStack))

\* The construct the walk is in, 0 when it is in none.
currentConstruct(b) ==
  IF b.constructAndDirectiveStack = <<>> THEN 0 ELSE Last(b.constructAndDirectiveStack)

\* The kind of the construct the walk is in, "" when it is in none.
currentConstructKind(b) ==
  IF currentConstruct(b) = 0 THEN "" ELSE b.evals[currentConstruct(b)].kind

\* The DO constructs the walk is in.
enclosingDoConstructs(b) ==
  {c \in Range(b.constructAndDirectiveStack) : b.evals[c].kind = "DoConstruct"}

\* The walk is in a DO CONCURRENT construct.
inDoConcurrent(b) ==
  \E c \in enclosingDoConstructs(b) :
    b.evals[getFirstNestedEvaluation(b.evals, c)].loopControl = "concurrent"

\* The action statements the language allows at the walk's position: CYCLE
\* and EXIT belong to an enclosing DO construct, and neither EXIT nor RETURN
\* leaves a DO CONCURRENT.
actionStmtsAt(b) ==
  (ActionStmts \ (IF enclosingDoConstructs(b) = {}
                  THEN {"CycleStmt", "ExitStmt"} ELSE {}))
    \ (IF inDoConcurrent(b) THEN {"ExitStmt", "ReturnStmt"} ELSE {})

\* The construct names in use in the Evaluations written so far.
namesInUse(b) == {b.evals[e].name : e \in 1..Len(b.evals)} \ {""}

\* The names of the constructs of the given kinds the walk is in.
enclosingNames(b, kinds) ==
  {b.evals[getFirstNestedEvaluation(b.evals, c)].name :
     c \in {c \in Range(b.constructAndDirectiveStack) : b.evals[c].kind \in kinds}}
    \ {""}

\* The construct names a new statement of the given kind may carry: the first
\* statement of a construct has none or the next name the grammar has left, a
\* CYCLE or EXIT none or the name of a construct it is in.
nameChoices(b, kind, G) ==
  LET free == {k \in 1..G.maxNames : ConstructNameSeq[k] \notin namesInUse(b)}
  IN CASE kind \in {"NonLabelDoStmt", "IfThenStmt", "SelectCaseStmt"} ->
            {""} \cup {ConstructNameSeq[k] : k \in {k \in free : \A m \in free : k <= m}}
       [] kind = "CycleStmt" -> {""} \cup enclosingNames(b, {"DoConstruct"})
       [] kind = "ExitStmt" -> {""} \cup enclosingNames(b, Constructs)
       [] OTHER -> {""}

\* The statement kinds the grammar allows next at the walk's position.
allowedKinds(b) ==
  LET construct == currentConstruct(b)
      constructKind == currentConstructKind(b)
      list == evaluationList(b.evals, Last(b.evaluationListStack))
      lastKind == b.evals[Last(list)].kind
      unit == b.units[currentFunction(b)]
  IN IF construct = 0
     THEN actionStmtsAt(b)
            \cup (IF /\ unit.kind \in {"SubroutineSubprogram", "FunctionSubprogram"}
                     /\ unit.parentVariant.tag # "Function"
                     /\ Len(unit.entryPointList) <= MaxEntries
                  THEN {"EntryStmt"} ELSE {})
     ELSE CASE list = <<>> -> {initialStmt(constructKind)}
            [] list # <<>> /\ lastKind = endStmt(constructKind) -> {}
            [] list # <<>> /\ lastKind = "SelectCaseStmt" -> {"CaseStmt", "EndSelectStmt"}
            [] OTHER ->
                 actionStmtsAt(b) \cup {endStmt(constructKind)}
                   \cup (IF constructKind = "CaseConstruct" THEN {"CaseStmt"} ELSE {})
                   \cup (IF /\ constructKind = "IfConstruct"
                            /\ \A k \in 1..Len(list) : b.evals[list[k]].kind # "ElseStmt"
                         THEN {"ElseIfStmt", "ElseStmt"} ELSE {})

\* The constructs of the stack that still lack their last statement.
openConstructs(b) ==
  {c \in Range(b.constructAndDirectiveStack) :
     \A e \in 1..Len(b.evals) :
       b.evals[e].parentConstruct = c => b.evals[e].kind # endStmt(b.evals[c].kind)}

\* The labels a new statement of the given kind may carry: none, or the next
\* label the unit has not used yet.
labelChoices(b, kind, G) ==
  LET labelEvaluationMap == b.units[b.labelEvaluationMap].labelEvaluationMap
      free == {l \in 1..G.maxLabel : labelEvaluationMap[l] = 0}
  IN IF kind \in OtherStmts \/ free = {} THEN {0}
     ELSE {0, CHOOSE l \in free : \A m \in free : l <= m}

\* The specifiers the walked I/O statements have: ERR=, END= and FMT= with an
\* expression for a READ, ERR= and another specifier for the other statements.
specChoices(kind, G) ==
  IF kind = "ReadStmt"
  THEN [spec : {"ErrLabel", "EndLabel"}, v : 1..G.maxLabel, format : {"none"}]
         \cup [spec : {"Format"}, v : {0}, format : {"literal", "character", "integer"}]
  ELSE {[spec |-> "other", v |-> 0, format |-> "none"]}
         \cup [spec : {"ErrLabel"}, v : 1..G.maxLabel, format : {"none"}]

\* The place of a specifier in the lists walked.
specRank(spec) ==
  CASE spec = "other" -> 0 [] spec = "ErrLabel" -> 1 [] spec = "EorLabel" -> 2
    [] spec = "EndLabel" -> 3 [] OTHER -> 4

\* The nodes of an I/O statement of the given kind: a format that is not a
\* specifier (READ fmt and PRINT), and a list of different specifiers in one
\* order, without FMT= when the statement has its format in front.
ioChoices(kind, G) ==
  IF kind \notin IoStmts THEN {[format |-> "none", specs |-> <<>>]}
  ELSE {io \in [format : CASE kind = "PrintStmt" -> Formats \ {"none", "iolength"}
                            [] kind = "ReadStmt" -> {"none", "character", "integer"}
                            [] kind = "InquireStmt" -> {"none", "iolength"}
                            [] OTHER -> {"none"},
                 specs : SeqsUpTo(specChoices(kind, G), MaxSpecs)] :
          /\ kind = "PrintStmt" => io.specs = <<>>
          /\ io.format \in {"iolength", "character", "integer"} =>
               \A i \in 1..Len(io.specs) : io.specs[i].spec = "ErrLabel"
          /\ \A i, j \in 1..Len(io.specs) :
               i < j => specRank(io.specs[i].spec) < specRank(io.specs[j].spec)}

\* Pre(Statement<T>): a statement of the unit or construct the walk is in.
\* G is the grammar of the parse trees walked.
AddStatement(G) ==
  /\ currentFunction(pft) # 0
  /\ nestedFunctions(pft.units, currentFunction(pft)) = {}
  /\ \E kind \in allowedKinds(pft) \cap G.kinds :
       /\ \/ kind = endStmt(currentConstructKind(pft))
          \/ kind = initialStmt(currentConstructKind(pft))
          \/ Len(pft.evals) + 1 + Cardinality(openConstructs(pft)) <= G.maxEvals
       /\ \E label \in (IF G.labels THEN labelChoices(pft, kind, G) ELSE {0}),
             v \in (IF kind \in {"GotoStmt", "AssignStmt"} THEN 1..G.maxLabel ELSE {0}),
             loopControl \in (IF kind = "NonLabelDoStmt" THEN G.loopControls ELSE {""}),
             dummyArgs \in (IF kind = "EntryStmt" THEN DummyLists ELSE {<<>>}),
             name \in nameChoices(pft, kind, G),
             assignSymbol \in (IF kind = "AssignStmt" THEN AssignSymbols ELSE {""}),
             io \in ioChoices(kind, G) :
            \E dims \in (IF loopControl = "concurrent" THEN 1..MaxDims ELSE {0}),
               hasMask \in (IF loopControl = "concurrent" THEN BOOLEAN ELSE {FALSE}) :
              LET unit == pft.units[currentFunction(pft)]
                  symbol == IF kind = "EntryStmt"
                            THEN [name |-> Len(unit.entryPointList) + 1,
                                  dummyArgs |-> dummyArgs]
                            ELSE NoSymbol
              IN pft' = addEvaluation(
                          pft,
                          withIo(withNode(Evaluation(kind, Last(pft.parentVariantStack),
                                                     "source", label, v, loopControl,
                                                     symbol),
                                          name, dims, hasMask, assignSymbol),
                                 io))
  /\ UNCHANGED <<varsOps, varsSym>>

\* Pre(construct)
EnterConstruct(G) ==
  /\ currentFunction(pft) # 0
  /\ nestedFunctions(pft.units, currentFunction(pft)) = {}
  /\ "AssignmentStmt" \in allowedKinds(pft)
  /\ Len(pft.constructAndDirectiveStack) < MaxDepth
  /\ Len(pft.evals) + 3 + Cardinality(openConstructs(pft)) <= G.maxEvals
  /\ \E kind \in G.constructs : pft' = enterConstructOrDirective(pft, kind)
  /\ UNCHANGED <<varsOps, varsSym>>

\* Post(construct)
ExitConstruct ==
  /\ pft.constructAndDirectiveStack # <<>>
  /\ currentConstruct(pft) \notin openConstructs(pft)
  /\ pft' = exitConstructOrDirective(pft)
  /\ UNCHANGED <<varsOps, varsSym>>

\* Pre(function-like): a program unit, or an internal or module subprogram of
\* the unit the walk is in.
EnterFunction(G) ==
  /\ Len(pft.units) < G.maxUnits
  /\ pft.constructAndDirectiveStack = <<>>
  /\ LET top == Last(pft.parentVariantStack)
     IN \E kind \in G.unitKinds, dummyArgs \in DummyLists :
          /\ top.tag = "Function" =>
               /\ kind # "MainProgram"
               /\ pft.units[top.id].parentVariant.tag # "Function"
          /\ top.tag = "Module" => kind # "MainProgram"
          /\ (kind = "MainProgram" \/ ~G.dummies) => dummyArgs = <<>>
          /\ pft' = enterFunction(pft, kind, [name |-> 1, dummyArgs |-> dummyArgs])
  /\ UNCHANGED <<varsOps, varsSym>>

\* The labels a statement names: the label of a GOTO or ASSIGN, the ERR=, EOR=
\* and END= labels of an I/O statement.
labelsNamed(eval) ==
  (IF eval.kind \in {"GotoStmt", "AssignStmt"} THEN {eval.v} ELSE {})
    \cup {eval.specs[i].v : i \in {i \in 1..Len(eval.specs) : eval.specs[i].spec \in LabelSpecs}}

\* The branches of unit u all name a label of the unit.
labelsResolved(b, u) ==
  \A e \in 1..Len(b.evals) :
    getOwningProcedure(b.evals, b.evals[e].parentVariant) = u
      => \A l \in labelsNamed(b.evals[e]) : b.units[u].labelEvaluationMap[l] # 0

\* Post(function-like)
\* PFTBuilder::exitModule
exitModule(b) ==
  resetFunctionState([b EXCEPT !.parentVariantStack = Front(@),
                               !.units[Last(b.parentVariantStack).id].exited = TRUE,
                               !.entries = Front(@)])

\* Pre(parser::Module) and Pre(parser::Submodule): modules are program units.
EnterModule(G) ==
  /\ Len(pft.units) < G.maxUnits
  /\ Last(pft.parentVariantStack).tag = "Program"
  /\ pft' = enterModule(pft)
  /\ UNCHANGED <<varsOps, varsSym>>

\* Post(parser::Module) and Post(parser::Submodule)
ExitModule ==
  /\ Last(pft.parentVariantStack).tag = "Module"
  /\ pft' = exitModule(pft)
  /\ UNCHANGED <<varsOps, varsSym>>

\* Pre(parser::BlockData): the unit is added and its subtree is not walked.
AddBlockData(G) ==
  /\ Len(pft.units) < G.maxUnits
  /\ Last(pft.parentVariantStack).tag = "Program"
  /\ pft' = addUnit(pft, "BlockData")
  /\ UNCHANGED <<varsOps, varsSym>>

ExitFunction ==
  /\ Last(pft.parentVariantStack).tag = "Function"
  /\ labelsResolved(pft, currentFunction(pft))
  /\ \E order \in Orders(dummyArguments(pft.units[currentFunction(pft)])) :
       pft' = exitFunction(pft, order)
  /\ UNCHANGED <<varsOps, varsSym>>

-----------------------------------------------------------------------------
(* Symbol dependence analysis: PFTBuilder.cpp 1019-1255 *)

NumSyms == 4        \* symbols in a scope without equivalence sets
NumAliasSyms == 3   \* symbols in a scope with equivalence sets
MaxDeps == 2        \* symbols referenced by one symbol's length/bound/init expressions
MaxAliasDeps == 1   \* the same, in scopes that have equivalence sets
MaxOff == 1         \* largest byte offset of a symbol
MaxSize == 2        \* largest byte size of a symbol

\* The symbols of the scope, numbered in iteration order.
Syms == DOMAIN symtab

IdleSym == symtab = <<>> /\ hasEquiv = FALSE /\ sdd = <<>> /\ symPc = "idle"

\* A symbol that is not an object entity (a procedure, a use- or host-associated
\* name, a namelist, a module): analyze() looks at nothing but its kind.
OtherSymbol == [kind |-> "other", deps |-> <<>>, offset |-> 0, size |-> 1, saved |-> FALSE]

\* The symbols an expression list of symbol s can reference, in the order
\* evaluate::CollectSymbols yields them: any order, no symbol twice, never s.
DepSeqs(S, s, n) ==
  {q \in SeqsUpTo(S \ {s}, n) : \A i, j \in 1..Len(q) : i # j => q[i] # q[j]}

\* IntervalSet (IntervalSet.h): a set of disjoint closed intervals <<lo, up>>.
\* merge adds [lo..up], fusing it with every interval it overlaps.
merge(intervals, lo, up) ==
  LET hit == {iv \in intervals : iv[1] <= up /\ lo <= iv[2]}
      los == {iv[1] : iv \in hit} \cup {lo}
      ups == {iv[2] : iv \in hit} \cup {up}
      nlo == CHOOSE x \in los : \A y \in los : x <= y
      nup == CHOOSE x \in ups : \A y \in ups : x >= y
  IN (intervals \ hit) \cup {<<nlo, nup>>}

\* IntervalSet::find: the intervals holding pt (none, or exactly one).
find(intervals, pt) == {iv \in intervals : iv[1] <= pt /\ pt <= iv[2]}

definedInCommonBlock(sym) == FALSE

\* symbolIsGlobal(sym): an initializer, SAVE, or a common block.
symbolIsGlobal(sym) == sym.saved \/ definedInCommonBlock(sym)

\* SymbolDependenceDepth::skipSymbol
skipSymbol(sym) == sym.kind # "object" \/ definedInCommonBlock(sym)

\* analyzeAliases, step 1: the merged intervals of the scope's entities.
RECURSIVE scopeIntervals(_, _, _)
scopeIntervals(tab, i, intervals) ==
  IF i > Len(tab) THEN intervals
  ELSE scopeIntervals(tab, i + 1,
         IF skipSymbol(tab[i]) THEN intervals
         ELSE merge(intervals, tab[i].offset, tab[i].offset + tab[i].size - 1))

\* analyzeAliases, step 2: aliasSets[iter->first], in scope order.
aliasSet(tab, intervals, iv) ==
  SelectSeq([i \in 1..Len(tab) |-> i],
            LAMBDA s : ~skipSymbol(tab[s]) /\ iv \in find(intervals, tab[s].offset))

\* analyzeAliases, step 3: the IntervalStore of one alias set.  Its symbol list
\* is kept only when some member is global.
intervalStore(tab, intervals, iv) ==
  LET members == aliasSet(tab, intervals, iv)
      isGlobal == \E k \in 1..Len(members) : symbolIsGlobal(tab[members[k]])
  IN [tag |-> "IntervalStore", interval |-> <<iv[1], iv[2] - iv[1] + 1>>,
      vars |-> IF isGlobal THEN members ELSE <<>>]

\* The intervals whose alias set has more than one member.
aliasedIntervals(tab) ==
  LET intervals == scopeIntervals(tab, 1, {})
  IN {iv \in intervals : Len(aliasSet(tab, intervals, iv)) > 1}

\* SymbolDependenceDepth::analyzeAliases.  `order` is the order in which the
\* DenseMap of alias sets is iterated.
analyzeAliases(d, tab, order) ==
  LET intervals == scopeIntervals(tab, 1, {})
  IN [d EXCEPT
        !.aliasSyms = UNION {Range(aliasSet(tab, intervals, iv)) : iv \in Range(order)},
        !.stores = [k \in 1..Len(order) |-> intervalStore(tab, intervals, order[k])]]

\* Mutant of prepareStores: the stores are not put on the work list.
prepareStoresDropped(d) == [d EXCEPT !.vars = << <<>> >>]

\* SymbolDependenceDepth::prepareStores: all aggregate stores go to the front
\* of the work list (depth 0).
prepareStores(d) == [d EXCEPT !.vars = <<d.stores>>]

\* adjustSize: make sure the table has `size` buckets.
adjustSize(vs, size) ==
  IF Len(vs) < size THEN vs \o [k \in 1..(size - Len(vs)) |-> <<>>] ELSE vs

\* Mutant of findStore: the symbol's own offset instead of its store's start.
findStoreOwnOffset(stores, off) == off

\* The findStore lambda of analyze(): the start of the store holding `off`.
findStore(stores, off) ==
  LET k == CHOOSE k \in 1..Len(stores) :
             /\ off >= stores[k].interval[1]
             /\ off < stores[k].interval[1] + stores[k].interval[2]
             /\ \A j \in 1..(k - 1) :
                  ~(off >= stores[j].interval[1]
                    /\ off < stores[j].interval[1] + stores[j].interval[2])
  IN stores[k].interval[1]

\* SymbolDependenceDepth::analyze(sym), on the analysis state d.  The result is
\* the state afterwards and the depth returned.  analyzeRefs is the loops over
\* the symbols collected from the length, bound and initializer expressions.
RECURSIVE analyze(_, _, _)
RECURSIVE analyzeRefs(_, _, _, _, _)
analyze(d, tab, s) ==
  IF s \in d.seen THEN [d |-> [d EXCEPT !.calls = @ + 1], depth |-> 0]
  ELSE LET d1 == [d EXCEPT !.seen = @ \cup {s}, !.calls = @ + 1]
       IN IF tab[s].kind # "object" THEN [d |-> d1, depth |-> 0]
          ELSE LET d2 == [d1 EXCEPT !.bodies[s] = @ + 1]
                   depth0 == IF s \in d2.aliasSyms THEN Max(1, 0) ELSE 0
                   r == analyzeRefs(d2, tab, tab[s].deps, 1, depth0)
                   depth == r.depth
                   var == [tag |-> "Nominal", symbol |-> s,
                           global |-> tab[s].saved, depth |-> depth,
                           aliaser |-> s \in r.d.aliasSyms,
                           aliasOffset |-> IF s \in r.d.aliasSyms
                                           THEN findStore(r.d.stores, tab[s].offset)
                                           ELSE 0]
                   vs == adjustSize(r.d.vars, depth + 1)
               IN [d |-> [r.d EXCEPT !.vars = [vs EXCEPT ![depth + 1] = Append(@, var)]],
                   depth |-> depth]
analyzeRefs(d, tab, refs, i, depth) ==
  IF i > Len(refs) THEN [d |-> d, depth |-> depth]
  ELSE LET r == analyze(d, tab, refs[i])
       IN analyzeRefs(r.d, tab, refs, i + 1, Max(r.depth + 1, depth))

\* The loop of processSymbolTable over the scope.
RECURSIVE analyzeScope(_, _, _)
\* The scope loop with a `seen` set that does not outlive one iteration.
analyzeScopeForgetsSeen(d, tab, i) ==
  IF i > Len(tab) THEN d
  ELSE analyzeScope(analyze([d EXCEPT !.seen = {}], tab, i).d, tab, i + 1)

analyzeScope(d, tab, i) ==
  IF i > Len(tab) THEN d ELSE analyzeScope(analyze(d, tab, i).d, tab, i + 1)

\* SymbolDependenceDepth::finalize: one list, buckets in increasing depth.
finalize(d) == [d EXCEPT !.vars = <<Flatten(d.vars)>>]

NewSdd ==
  [seen |-> {}, vars |-> <<>>, aliasSyms |-> {}, stores |-> <<>>,
   bodies |-> [s \in Syms |-> 0], calls |-> 0]

\* processSymbolTable(scope, varList)
processSymbolTable ==
  /\ symPc = "start"
  /\ \E order \in (IF hasEquiv THEN Orders(aliasedIntervals(symtab)) ELSE {<<>>}) :
       LET d0 == IF hasEquiv THEN analyzeAliases(NewSdd, symtab, order) ELSE NewSdd
           d1 == prepareStores(d0)
           d2 == analyzeScope(d1, symtab, 1)
       IN sdd' = finalize(d2)
  /\ symPc' = "done"
  /\ UNCHANGED <<symtab, hasEquiv, varsOps, pft>>

\* Scopes without equivalence sets: every symbol keeps its own storage.
InitSym ==
  /\ IdleOps
  /\ IdlePFT
  /\ hasEquiv = FALSE
  /\ symtab \in [1..NumSyms -> {OtherSymbol}
                   \cup {[kind |-> "object", deps |-> q, offset |-> 0, size |-> 1,
                          saved |-> FALSE] : q \in SeqsUpTo(1..NumSyms, MaxDeps)}]
  /\ \A s \in 1..NumSyms :
       symtab[s].kind = "object" => symtab[s].deps \in DepSeqs(1..NumSyms, s, MaxDeps)
  /\ sdd = NewSdd
  /\ symPc = "start"

SpecSym == InitSym /\ [][processSymbolTable]_vars

\* Scopes with equivalence sets: offsets and sizes as laid out by semantics.
InitAlias ==
  /\ IdleOps
  /\ IdlePFT
  /\ hasEquiv = TRUE
  /\ symtab \in [1..NumAliasSyms -> {OtherSymbol}
                   \cup {[kind |-> "object", deps |-> q, offset |-> o, size |-> z,
                          saved |-> g] :
                           q \in SeqsUpTo(1..NumAliasSyms, MaxAliasDeps),
                           o \in 0..MaxOff, z \in 1..MaxSize, g \in BOOLEAN}]
  /\ \A s \in 1..NumAliasSyms :
       symtab[s].kind = "object"
         => symtab[s].deps \in DepSeqs(1..NumAliasSyms, s, MaxAliasDeps)
  /\ sdd = NewSdd
  /\ symPc = "start"

SpecAlias == InitAlias /\ [][processSymbolTable]_vars

(* Claims about the symbol dependence analysis *)

\* The unit's final variable list.
VarList == sdd.vars[1]

NominalAt(s) ==
  {k \in 1..Len(VarList) : VarList[k].tag = "Nominal" /\ VarList[k].symbol = s}
Materialized(s) == NominalAt(s) # {}
PosOf(s) == CHOOSE k \in NominalAt(s) : TRUE

\* The symbols reachable from the set S by following references, S included.
RECURSIVE RefClosure(_, _)
RefClosure(S, n) ==
  IF n = 0 THEN S
  ELSE RefClosure(S \cup UNION {Range(symtab[s].deps) : s \in S}, n - 1)

\* No symbol's expressions lead back to the symbol itself.
AcyclicRefs ==
  \A s \in Syms : s \notin RefClosure(Range(symtab[s].deps), Len(symtab))

\* C1: in the variable list processSymbolTable produces, every Nominal
\* variable v comes strictly after the Variable of each materialized symbol
\* its length, bound or initializer expressions reference, and has a strictly
\* greater depth.  Stated here for scopes whose references are acyclic, where
\* such an order exists.
DependenciesAllocatedFirst ==
  (symPc = "done" /\ AcyclicRefs) =>
    \A v \in Syms : Materialized(v) =>
      \A s \in Range(symtab[v].deps) : Materialized(s) =>
        /\ PosOf(s) < PosOf(v)
        /\ VarList[PosOf(s)].depth < VarList[PosOf(v)].depth

\* Two entities whose byte intervals share a byte.
Overlap(a, b) ==
  /\ symtab[a].offset <= symtab[b].offset + symtab[b].size - 1
  /\ symtab[b].offset <= symtab[a].offset + symtab[a].size - 1

ObjectSyms == {s \in Syms : symtab[s].kind = "object"}

\* The alias set of a: the object entities linked to a by a chain of overlaps.
RECURSIVE OverlapClosure(_, _)
OverlapClosure(S, n) ==
  IF n = 0 THEN S
  ELSE OverlapClosure(S \cup {b \in ObjectSyms : \E a \in S : Overlap(a, b)}, n - 1)

AliasSetOf(a) == OverlapClosure({a}, Len(symtab))

\* The merged byte interval of an alias set, as <<start, length>>.
MergedInterval(S) ==
  LET bgn == CHOOSE x \in {symtab[s].offset : s \in S} :
               \A s \in S : x <= symtab[s].offset
      last == CHOOSE x \in {symtab[s].offset + symtab[s].size - 1 : s \in S} :
               \A s \in S : x >= symtab[s].offset + symtab[s].size - 1
  IN <<bgn, last - bgn + 1>>

StoresOf(S) ==
  {k \in 1..Len(VarList) :
     VarList[k].tag = "IntervalStore" /\ VarList[k].interval = MergedInterval(S)}

\* C2: for every alias set with more than one member there is exactly one
\* IntervalStore for the merged byte interval, every member's Nominal variable
\* carries the start of that interval as its alias offset, and the store comes
\* before every member in the final list.
AliasSetsShareOneStore ==
  symPc = "done" =>
    \A a \in ObjectSyms :
      LET S == AliasSetOf(a) IN
      Cardinality(S) > 1 =>
        /\ Cardinality(StoresOf(S)) = 1
        /\ \A m \in S :
             /\ Materialized(m)
             /\ VarList[PosOf(m)].aliaser
             /\ VarList[PosOf(m)].aliasOffset = MergedInterval(S)[1]
             /\ \A k \in StoresOf(S) : k < PosOf(m)

\* C2 witness: a finished analysis with an alias set of two or more members,
\* one of which references another symbol of the scope.
AliasSetAnalyzed ==
  /\ symPc = "done"
  /\ \E a \in ObjectSyms :
       /\ Cardinality(AliasSetOf(a)) > 1
       /\ symtab[a].deps # <<>>
       /\ StoresOf(AliasSetOf(a)) # {}

-----------------------------------------------------------------------------
(* Specifications of the FIR operation model *)

InitOps == IdleOps /\ IdleSym /\ IdlePFT

NextOps == BuildIfOp \/ BuildIfOpNoResults \/ VerifyIfOp

SpecOps == InitOps /\ [][NextOps]_vars

NextSelectCase == BuildSelectCase \/ BuildSelectCaseFlat

SpecSelectCase == InitOps /\ [][NextSelectCase]_vars

NextSelectCaseParse == ParseSelectCase

SpecSelectCaseParse == InitOps /\ [][NextSelectCaseParse]_vars

NextVerifiers ==
  \/ BuildDoLoop \/ GenericDoLoop \/ VerifyDoLoop
  \/ BuildIterWhile \/ GenericIterWhile \/ VerifyIterWhile
  \/ GenericResult \/ VerifyResult
  \/ BuildIfOp \/ BuildIfOpNoResults \/ VerifyIfOp

SpecVerifiers == InitOps /\ [][NextVerifiers]_vars

NextCmp == ParseCmpOp \/ PrintCmpOp

SpecCmp == InitOps /\ [][NextCmp]_vars

NextGlobal == ParseGlobalOp

SpecGlobal == InitOps /\ [][NextGlobal]_vars

NextAlloc == WrapAlloca \/ WrapAllocMem

SpecAlloc == InitOps /\ [][NextAlloc]_vars

-----------------------------------------------------------------------------
(* Claims about the FIR operations *)

\* C9: verification of an IfOp fails, with the message "must have an else
\* block if defining values", exactly when the op has a result and its else
\* region has no block; an IfOp built with result types and without an else
\* region is in that state, every other built IfOp passes.
IfOpNeedsElseForResults ==
  (op.name = "fir.if" /\ verdict # "unverified") =>
    /\ (verdict = "failure") <=> (getNumResults(op) # 0 /\ otherRegion(op) = <<>>)
    /\ (verdict = "failure") <=> (opArgs.resultTypes # <<>> /\ ~opArgs.withElseRegion)
    /\ verdict = "failure" => diag = "must have an else block if defining values"
    /\ verdict = "success" => diag = ""

\* C9 witness: an IfOp built with result types and no else region has been
\* verified and rejected.
IfOpRejected ==
  /\ op.name = "fir.if"
  /\ verdict = "failure"
  /\ opArgs.resultTypes # <<>>
  /\ ~opArgs.withElseRegion

\* C10: the segment lengths SelectCaseOp::build stores describe the operands
\* it added: operand_segment_sizes is {1, compare operands added, target
\* operands added}, and the two offset lists sum to those counts.
SelectCaseSegmentsMatchOperands ==
  op.name = "fir.select_case" =>
    /\ op.attrs.operand_segment_sizes = <<1, op.added.compare, op.added.target>>
    /\ SumSeq(op.attrs.compare_operand_offsets) = op.added.compare
    /\ SumSeq(op.attrs.target_operand_offsets) = op.added.target

\* C11: an operation read by parseSelectCase carries the offsets, the
\* segment sizes, the successors and the operand order (selector, compare
\* operands, target operands) that SelectCaseOp::build gives for the same case
\* attributes, compare operands and destination argument lists.
ParsedSelectCaseAgreesWithBuild ==
  (op.name = "fir.select_case" /\ "parsed" \in DOMAIN opArgs) =>
    LET built == SelectCaseOpBuild(opArgs.selector, opArgs.compareAttrs,
                                   opArgs.cmpOperands, opArgs.destinations,
                                   opArgs.destOperands)
    IN /\ op.attrs.compare_operand_offsets = built.attrs.compare_operand_offsets
       /\ op.attrs.target_operand_offsets = built.attrs.target_operand_offsets
       /\ op.attrs.operand_segment_sizes = built.attrs.operand_segment_sizes
       /\ op.attrs.cases = built.attrs.cases
       /\ op.operands = built.operands
       /\ op.successors = built.successors
       /\ op.attrs.operand_segment_sizes = <<1, op.added.compare, op.added.target>>

\* C11 witness: a parsed select_case with a closed interval and a one-operand
\* case, both with destination arguments.
SelectCaseParsed ==
  /\ op.name = "fir.select_case"
  /\ "parsed" \in DOMAIN opArgs
  /\ opArgs.compareAttrs = <<"interval", "point">>
  /\ \A i \in 1..2 : opArgs.destOperands[i] # <<>>

\* C12: a DoLoopOp passes verification only if its loop-carried operands, the
\* arguments of its body after the induction variable and its results are
\* equally many; an op with no result and a loop-carried operand fails.
DoLoopVerifiedOnlyIfCountsAgree ==
  (op.name = "fir.do_loop" /\ verdict = "success") =>
    /\ getNumIterOperands(op) = getNumResults(op)
    /\ getNumRegionIterArgs(op) = getNumResults(op)

\* C13: a verifier of DoLoopOp, IterWhileOp, IfOp or ResultOp that fails has
\* emitted a diagnostic.
VerifierFailuresHaveDiagnostics ==
  (op.name \in {"fir.do_loop", "fir.iterate_while", "fir.if", "fir.result"}
     /\ verdict = "failure") => diag # ""

\* C14: parsing a comparison whose predicate attribute is not a string, or is
\* a string that names no predicate, ends in a parse failure with a diagnostic
\* and no operation, never in an abort; a known name is stored as the enum
\* value the printer writes back as the same name.
CmpParseRejectsBadPredicate ==
  "predicateNameAttr" \in DOMAIN opArgs =>
    LET attr == opArgs.predicateNameAttr
        known == attr.kind = "string" /\ attr.value \in Range(CmpFPredicateNames)
    IN /\ verdict # "aborted"
       /\ ~known => (verdict = "parse failure" /\ diag # "" /\ op = NoOp)
       /\ (known /\ opArgs.printed # "") => opArgs.printed = attr.value

\* C15: verifyValidLinkage succeeds exactly for common, internal, linkonce
\* and weak; a global definition that starts with another keyword fails to
\* parse and leaves no operation, one that starts with a listed keyword and
\* parses has that keyword as its linkage attribute.
GlobalLinkageWhitelisted ==
  /\ \A k \in LinkageKeywords \ {""} :
       (verifyValidLinkage(k) = "success")
         <=> k \in {"common", "internal", "linkonce", "weak"}
  /\ "text" \in DOMAIN opArgs =>
       LET linkage == opArgs.text.linkage
           listed == linkage \in {"common", "internal", "linkonce", "weak"}
       IN /\ (linkage # "" /\ ~listed) => (verdict = "parse failure" /\ op = NoOp)
          /\ (op.name = "fir.global" /\ listed) => op.attrs.linkage = linkage
          /\ (op.name = "fir.global" /\ linkage = "") => "linkage" \notin DOMAIN op.attrs

\* C15 witness: a definition that starts with `weak` was parsed, and so was
\* the rest of it.
WeakGlobalParsed ==
  /\ op.name = "fir.global"
  /\ opArgs.text.linkage = "weak"
  /\ op.attrs.linkage = "weak"

\* C16: AllocaOp::wrapResultType gives no type exactly for a reference type,
\* AllocMemOp::wrapResultType exactly for a reference, heap, pointer or
\* function type; otherwise the result is the reference (heap) type whose
\* element type, which getAllocatedType returns, is the input type.
WrapResultTypeRefusesIndirection ==
  "intype" \in DOMAIN opArgs =>
    LET intype == opArgs.intype
        refused == IF opArgs.name = "fir.alloca"
                   THEN intype.kind = "ref"
                   ELSE intype.kind \in {"ref", "heap", "ptr", "func"}
    IN /\ refused <=> (verdict = "no type" /\ op = NoOp)
       /\ ~refused =>
            /\ op.name = opArgs.name
            /\ op.type.kind = (IF opArgs.name = "fir.alloca" THEN "ref" ELSE "heap")
            /\ getAllocatedType(op) = intype

\* C16 witness: an allocmem of a pointer was refused.
AllocMemOfPointerRefused ==
  /\ "intype" \in DOMAIN opArgs
  /\ opArgs.name = "fir.allocmem"
  /\ opArgs.intype.kind = "ptr"
  /\ verdict = "no type"

-----------------------------------------------------------------------------
(* Specifications of the PFT builder *)

MaxBranchEvals == 7   \* Evaluations of a unit walked for branch analysis

\* Parse trees of one main program with constructs and GOTO statements.
BranchGrammar ==
  [kinds |-> {"AssignmentStmt", "GotoStmt"} \cup ConstructStmts,
   constructs |-> Constructs, loopControls |-> LoopControls \ {"concurrent"},
   unitKinds |-> {"MainProgram"}, dummies |-> FALSE, labels |-> TRUE,
   maxLabel |-> MaxLabel, maxNames |-> 0,
   maxEvals |-> MaxBranchEvals, maxUnits |-> 1]

InitPFT ==
  /\ IdleOps
  /\ IdleSym
  /\ \E disableStructuredFir \in BOOLEAN : pft = PFTBuilder(disableStructuredFir)

NextBranch ==
  \/ EnterFunction(BranchGrammar)
  \/ AddStatement(BranchGrammar)
  \/ EnterConstruct(BranchGrammar)
  \/ ExitConstruct
  \/ ExitFunction

SpecBranch == InitPFT /\ [][NextBranch]_vars

MaxUnitEvals == 4   \* Evaluations written in the units of one walk
MaxUnits == 2       \* units in one walk

\* Parse trees of main programs and subroutines with ENTRY statements, IF
\* constructs and internal subprograms.
UnitGrammar ==
  [kinds |-> {"AssignmentStmt", "ContinueStmt", "EntryStmt", "IfThenStmt", "EndIfStmt"},
   constructs |-> {"IfConstruct"}, loopControls |-> {},
   unitKinds |-> {"MainProgram", "SubroutineSubprogram"}, dummies |-> TRUE,
   labels |-> FALSE, maxLabel |-> MaxLabel, maxNames |-> 0,
   maxEvals |-> MaxUnitEvals, maxUnits |-> MaxUnits]

NextUnits ==
  \/ EnterFunction(UnitGrammar)
  \/ AddStatement(UnitGrammar)
  \/ EnterConstruct(UnitGrammar)
  \/ ExitConstruct
  \/ ExitFunction

SpecUnits == InitPFT /\ [][NextUnits]_vars

MaxNestEvals == 4   \* Evaluations written in the units of one nested walk
MaxNestUnits == 4   \* program units and internal subprograms in one nested walk

\* Parse trees of programs with modules, block data, main programs,
\* subroutines with internal subprograms and IF constructs.
NestGrammar ==
  [kinds |-> {"AssignmentStmt", "IfThenStmt", "EndIfStmt"},
   constructs |-> {"IfConstruct"}, loopControls |-> {},
   unitKinds |-> {"MainProgram", "SubroutineSubprogram"}, dummies |-> FALSE,
   labels |-> FALSE, maxLabel |-> MaxLabel, maxNames |-> 0,
   maxEvals |-> MaxNestEvals, maxUnits |-> MaxNestUnits]

NextNest ==
  \/ EnterModule(NestGrammar)
  \/ ExitModule
  \/ AddBlockData(NestGrammar)
  \/ EnterFunction(NestGrammar)
  \/ AddStatement(NestGrammar)
  \/ EnterConstruct(NestGrammar)
  \/ ExitConstruct
  \/ ExitFunction

SpecNest == InitPFT /\ [][NextNest]_vars

MaxReturnEvals == 5   \* Evaluations of a subroutine with RETURN and STOP

\* Parse trees of one subroutine with RETURN, STOP, GOTO and CONTINUE
\* statements and IF constructs.
ReturnGrammar ==
  [kinds |-> {"ReturnStmt", "StopStmt", "GotoStmt", "ContinueStmt",
              "IfThenStmt", "ElseStmt", "EndIfStmt"},
   constructs |-> {"IfConstruct"}, loopControls |-> {},
   unitKinds |-> {"SubroutineSubprogram"}, dummies |-> FALSE, labels |-> TRUE,
   maxLabel |-> MaxLabel, maxNames |-> 0,
   maxEvals |-> MaxReturnEvals, maxUnits |-> 1]

NextReturn ==
  \/ EnterFunction(ReturnGrammar)
  \/ AddStatement(ReturnGrammar)
  \/ EnterConstruct(ReturnGrammar)
  \/ ExitConstruct
  \/ ExitFunction

SpecReturn == InitPFT /\ [][NextReturn]_vars

MaxCycleEvals == 8   \* Evaluations of a program with CYCLE and EXIT
MaxCycleNames == 1   \* construct names of such a program

\* Parse trees of one main program with DO and DO CONCURRENT constructs, with
\* and without names, and CYCLE and EXIT statements.
CycleGrammar ==
  [kinds |-> {"CycleStmt", "ExitStmt", "NonLabelDoStmt", "EndDoStmt"},
   constructs |-> {"DoConstruct"}, loopControls |-> {"integer", "concurrent"},
   unitKinds |-> {"MainProgram"}, dummies |-> FALSE, labels |-> FALSE,
   maxLabel |-> MaxLabel, maxNames |-> MaxCycleNames,
   maxEvals |-> MaxCycleEvals, maxUnits |-> 1]

NextCycle ==
  \/ EnterFunction(CycleGrammar)
  \/ AddStatement(CycleGrammar)
  \/ EnterConstruct(CycleGrammar)
  \/ ExitConstruct
  \/ ExitFunction

SpecCycle == InitPFT /\ [][NextCycle]_vars

MaxAssignEvals == 4   \* Evaluations of a subroutine with ASSIGN statements

\* Parse trees of one subroutine with ASSIGN, assigned GOTO, GOTO and CONTINUE
\* statements and IF constructs.
AssignGrammar ==
  [kinds |-> {"AssignStmt", "AssignedGotoStmt", "GotoStmt", "ContinueStmt",
              "IfThenStmt", "EndIfStmt"},
   constructs |-> {"IfConstruct"}, loopControls |-> {},
   unitKinds |-> {"SubroutineSubprogram"}, dummies |-> FALSE, labels |-> TRUE,
   maxLabel |-> MaxAssignLabel, maxNames |-> 0,
   maxEvals |-> MaxAssignEvals, maxUnits |-> 1]

NextAssign ==
  \/ EnterFunction(AssignGrammar)
  \/ AddStatement(AssignGrammar)
  \/ EnterConstruct(AssignGrammar)
  \/ ExitConstruct
  \/ ExitFunction

SpecAssign == InitPFT /\ [][NextAssign]_vars

MaxIoEvals == 3   \* Evaluations of a program with I/O statements

\* Parse trees of one main program with READ, PRINT and CLOSE statements,
\* labelled CONTINUE statements and IF constructs.
IoGrammar ==
  [kinds |-> {"ReadStmt", "PrintStmt", "CloseStmt", "ContinueStmt",
              "IfThenStmt", "EndIfStmt"},
   constructs |-> {"IfConstruct"}, loopControls |-> {},
   unitKinds |-> {"MainProgram"}, dummies |-> FALSE, labels |-> TRUE,
   maxLabel |-> MaxLabel, maxNames |-> 0,
   maxEvals |-> MaxIoEvals, maxUnits |-> 1]

NextIo ==
  \/ EnterFunction(IoGrammar)
  \/ AddStatement(IoGrammar)
  \/ EnterConstruct(IoGrammar)
  \/ ExitConstruct
  \/ ExitFunction

SpecIo == InitPFT /\ [][NextIo]_vars

-----------------------------------------------------------------------------
(* Claims about the branch analysis *)

Evals == 1..Len(pft.evals)
ConstructEvals == {e \in Evals : isConstruct(pft.evals[e].kind)}

\* The unit that owns Evaluation e has been exited: its analysis is complete.
Analyzed(e) ==
  pft.units[getOwningProcedure(pft.evals, pft.evals[e].parentVariant)].exited

\* The unit that owns Evaluation e.
OwnerOfEval(e) == getOwningProcedure(pft.evals, pft.evals[e].parentVariant)

\* The constructs enclosing Evaluation e, from its parent construct to the top.
RECURSIVE Enclosing(_)
Enclosing(e) ==
  LET parent == pft.evals[e].parentConstruct
  IN IF parent = 0 THEN {} ELSE {parent} \cup Enclosing(parent)

\* C3: once analyzeBranches has completed for a unit, every construct that
\* encloses an unstructured construct of the unit is unstructured too.
UnstructuredReachesTop ==
  \A c \in ConstructEvals :
    (Analyzed(c) /\ pft.evals[c].isUnstructured) =>
      \A outer \in Enclosing(c) : pft.evals[outer].isUnstructured

\* C3 witness: an analyzed unit in which a nested construct was marked by a
\* branch into it from a statement that follows the outermost construct, so
\* after the analysis of both constructs was over.
NestedConstructMarkedLate ==
  \E k \in 1..Len(pft.calls) :
    LET call == pft.calls[k]
    IN \E c \in ConstructEvals :
         /\ Analyzed(c)
         /\ c \in call.after \ call.before
         /\ Enclosing(c) # {}
         /\ Enclosing(call.source) = {}
         /\ call.source > c

\* The target of a recorded branch is the first statement of its construct.
TargetIsInitialStmt(call) ==
  /\ isConstructStmt(pft.evals[call.target].kind)
  /\ \A e \in Evals :
       pft.evals[e].parentConstruct = pft.evals[call.target].parentConstruct
         => e >= call.target

\* The recorded branch stays within reach of its source: the target is at the
\* top level or in a construct that encloses the source, or it is the first
\* statement of a construct whose parent is the top level or encloses the source.
TargetInReach(call) ==
  LET targetConstruct == pft.evals[call.target].parentConstruct
  IN \/ targetConstruct = 0
     \/ targetConstruct \in Enclosing(call.source)
     \/ /\ TargetIsInitialStmt(call)
        /\ \/ pft.evals[targetConstruct].parentConstruct = 0
           \/ pft.evals[targetConstruct].parentConstruct \in Enclosing(call.source)

\* C5: a call of markBranchTarget whose target lies in a construct that does
\* not enclose the source marks the source unstructured, the target a new
\* block, and every construct around the target below the common ancestor of
\* source and target unstructured; a call whose target is in reach of the
\* source marks no construct.
BranchIntoConstructMarksChain ==
  \A k \in 1..Len(pft.calls) :
    LET call == pft.calls[k]
    IN IF TargetInReach(call)
       THEN call.after \cap ConstructEvals = call.before \cap ConstructEvals
       ELSE /\ call.source \in call.after
            /\ call.newBlock
            /\ (Enclosing(call.target) \ Enclosing(call.source)) \subseteq call.after

\* C5 witness: a branch into a construct nested in the construct the source is
\* in, which newly marks the target's construct.
BranchIntoNestedConstruct ==
  \E k \in 1..Len(pft.calls) :
    LET call == pft.calls[k]
    IN /\ ~TargetInReach(call)
       /\ Enclosing(call.target) \cap Enclosing(call.source) # {}
       /\ (Enclosing(call.target) \ Enclosing(call.source)) \ call.before # {}

\* The Evaluations inside construct c, at any depth.
Inside(c) == {e \in Evals : c \in Enclosing(e)}

DoStmtOf(c) == CHOOSE e \in Evals :
  pft.evals[e].parentConstruct = c /\ pft.evals[e].kind = "NonLabelDoStmt"
EndDoStmtOf(c) == CHOOSE e \in Evals :
  pft.evals[e].parentConstruct = c /\ pft.evals[e].kind = "EndDoStmt"

\* An analyzed DO construct with integer bounds whose body, statements and
\* nested constructs alike, holds nothing unstructured.
IntegerDoWithStructuredBody(c) ==
  /\ pft.evals[c].kind = "DoConstruct"
  /\ Analyzed(c)
  /\ pft.evals[DoStmtOf(c)].loopControl = "integer"
  /\ \A e \in Inside(c) \ {DoStmtOf(c), EndDoStmtOf(c)} : ~pft.evals[e].isUnstructured

DoLoopIsStructured(c) ==
  /\ ~pft.evals[c].isUnstructured
  /\ ~pft.evals[DoStmtOf(c)].isUnstructured
  /\ pft.evals[DoStmtOf(c)].controlSuccessor = EndDoStmtOf(c)
  /\ pft.evals[EndDoStmtOf(c)].controlSuccessor = DoStmtOf(c)

\* C6 as stated: an integer-bounds DO construct with no unstructured statement
\* in its body is structured after branch analysis, as is its DO statement,
\* and DO and END DO are each other's control successor.
IntegerDoIsStructured ==
  \A c \in ConstructEvals : IntegerDoWithStructuredBody(c) => DoLoopIsStructured(c)

\* No branch of the unit names a statement of construct c.
NoBranchInto(c) ==
  \A e \in Evals :
    (pft.evals[e].kind = "GotoStmt" /\ Analyzed(e)) =>
      pft.units[getOwningProcedure(pft.evals, pft.evals[e].parentVariant)]
        .labelEvaluationMap[pft.evals[e].v] \notin Inside(c)

\* C6 amended: the same, for DO constructs none of whose statements, DO and
\* END DO included, is the target of a branch.
IntegerDoWithoutBranchInIsStructured ==
  \A c \in ConstructEvals :
    (IntegerDoWithStructuredBody(c) /\ NoBranchInto(c)) => DoLoopIsStructured(c)

\* C6 witness: an analyzed integer-bounds DO construct with a statement in its
\* body, in a unit that has a branch.
IntegerDoAnalyzed ==
  \E c \in ConstructEvals :
    /\ IntegerDoWithStructuredBody(c)
    /\ NoBranchInto(c)
    /\ Inside(c) \ {DoStmtOf(c), EndDoStmtOf(c)} # {}
    /\ pft.calls # <<>>

\* The analyzed RETURN and STOP statements.
ReturnOrStopStmts ==
  {e \in Evals : pft.evals[e].kind \in {"ReturnStmt", "StopStmt"} /\ Analyzed(e)}

\* Statement e is the unit's last statement: the statement immediately before
\* the unit's terminal, which has no lexical successor.
IsLastStatement(e) ==
  pft.evals[pft.evals[e].lexicalSuccessor].lexicalSuccessor = 0

\* C17 as stated: a RETURN or STOP statement is marked unstructured only if it
\* is not the unit's last statement; one that is the last statement stays
\* structured.
ReturnMarkedOnlyIfNotLast ==
  \A e \in ReturnOrStopStmts : pft.evals[e].isUnstructured => ~IsLastStatement(e)

\* C17 amended: every RETURN or STOP statement is marked unstructured; its
\* successor is marked as starting a new block when the statement is not the
\* unit's last statement, and the terminal after a last RETURN or STOP starts a
\* new block only as the target of a branch.
ReturnAlwaysUnstructured ==
  \A e \in ReturnOrStopStmts :
    /\ pft.evals[e].isUnstructured
    /\ IF IsLastStatement(e)
       THEN pft.evals[pft.evals[e].lexicalSuccessor].isNewBlock =>
              \E k \in 1..Len(pft.calls) :
                pft.calls[k].target = pft.evals[e].lexicalSuccessor
       ELSE pft.evals[nonNopSuccessor(pft.evals, e)].isNewBlock

\* C17 witness: an analyzed unit whose last statement is a RETURN or STOP
\* followed by an unmarked terminal, with an earlier RETURN or STOP.
LastReturnAnalyzed ==
  \E e1, e2 \in ReturnOrStopStmts :
    /\ IsLastStatement(e1)
    /\ ~pft.evals[pft.evals[e1].lexicalSuccessor].isNewBlock
    /\ ~IsLastStatement(e2)

\* The construct an analyzed CYCLE or EXIT statement e belongs to: the construct
\* whose first statement has the name e gives, or without a name the innermost
\* DO construct around e.
DoConstructsAround(e) == {c \in Enclosing(e) : pft.evals[c].kind = "DoConstruct"}

ConstructOf(e) ==
  IF pft.evals[e].name # ""
  THEN CHOOSE c \in ConstructEvals :
         pft.evals[getFirstNestedEvaluation(pft.evals, c)].name = pft.evals[e].name
  ELSE CHOOSE c \in DoConstructsAround(e) :
         \A d \in DoConstructsAround(e) \ {c} : d \in Enclosing(c)

\* Statement e has the control successor t, and t starts a new block.
BranchesTo(e, t) ==
  pft.evals[e].controlSuccessor = t /\ pft.evals[t].isNewBlock

CycleStmts == {e \in Evals : pft.evals[e].kind = "CycleStmt" /\ Analyzed(e)}
ExitStmts == {e \in Evals : pft.evals[e].kind = "ExitStmt" /\ Analyzed(e)}

\* C18 as stated: a CYCLE statement branches to the first statement of its
\* construct, an EXIT statement to the construct exit of its construct.
CycleBranchesToFirstStatement ==
  /\ \A e \in CycleStmts :
       BranchesTo(e, getFirstNestedEvaluation(pft.evals, ConstructOf(e)))
  /\ \A e \in ExitStmts : BranchesTo(e, pft.evals[ConstructOf(e)].constructExit)

\* C18 amended: a CYCLE statement branches to the last statement of its
\* construct, the END DO; an EXIT statement to the construct exit of its
\* construct.
CycleBranchesToEndDo ==
  /\ \A e \in CycleStmts : BranchesTo(e, EndDoStmtOf(ConstructOf(e)))
  /\ \A e \in ExitStmts : BranchesTo(e, pft.evals[ConstructOf(e)].constructExit)

\* C18 witness: an analyzed CYCLE that names the outer of two nested DO
\* constructs, and an analyzed EXIT without a name.
NamedCycleAnalyzed ==
  /\ \E e \in CycleStmts :
       /\ pft.evals[e].name # ""
       /\ ConstructOf(e) # pft.evals[e].parentConstruct
       /\ pft.evals[e].controlSuccessor = EndDoStmtOf(ConstructOf(e))
  /\ \E e \in ExitStmts : pft.evals[e].name = ""

\* The analyzed DO CONCURRENT constructs that are lowered as unstructured.
UnstructuredConcurrentLoops ==
  {c \in ConstructEvals :
     /\ pft.evals[c].kind = "DoConstruct"
     /\ Analyzed(c)
     /\ pft.evals[DoStmtOf(c)].loopControl = "concurrent"
     /\ lowerAsUnstructured(pft, c)}

\* C19 as stated: the local-block lists of the DO and END DO statements of an
\* unstructured DO CONCURRENT with d dimensions hold a header, a body and a
\* latch block for each dimension and one mask block, 3d + 1 blocks.
ConcurrentReservesThreePerDimension ==
  \A c \in UnstructuredConcurrentLoops :
    pft.evals[DoStmtOf(c)].localBlocks + pft.evals[EndDoStmtOf(c)].localBlocks =
      3 * pft.evals[DoStmtOf(c)].dims + 1

\* C19 amended: the list of the DO statement holds 2d - 1 header and body
\* blocks, and one more if the loop has a mask; the list of the END DO
\* statement holds d - 1 latch blocks.
ConcurrentReservesAllButInnermost ==
  \A c \in UnstructuredConcurrentLoops :
    /\ pft.evals[DoStmtOf(c)].localBlocks =
         2 * pft.evals[DoStmtOf(c)].dims - 1
           + (IF pft.evals[DoStmtOf(c)].hasMask THEN 1 ELSE 0)
    /\ pft.evals[EndDoStmtOf(c)].localBlocks = pft.evals[DoStmtOf(c)].dims - 1

\* C19 witness: an analyzed unstructured DO CONCURRENT with two dimensions and
\* a mask, made unstructured by a CYCLE statement in it.
MaskedConcurrentLoopAnalyzed ==
  \E c \in UnstructuredConcurrentLoops :
    /\ pft.evals[DoStmtOf(c)].dims = 2
    /\ pft.evals[DoStmtOf(c)].hasMask
    /\ pft.evals[c].isUnstructured
    /\ ~pft.clDisableStructuredFir

AssignStmts == {e \in Evals : pft.evals[e].kind = "AssignStmt" /\ Analyzed(e)}
AssignedGotoStmts ==
  {e \in Evals : pft.evals[e].kind = "AssignedGotoStmt" /\ Analyzed(e)}

\* The label set recorded for symbol sym in unit u, empty when the map of the
\* unit has no entry for the symbol.
LabelSet(u, sym) ==
  IF sym \in DOMAIN pft.units[u].assignSymbolLabelMap
  THEN pft.units[u].assignSymbolLabelMap[sym] ELSE {}

\* The labels the ASSIGN statements of unit u assign to symbol sym.
AssignedLabels(u, sym) ==
  {pft.evals[e].v : e \in {e \in AssignStmts : /\ OwnerOfEval(e) = u
                                                /\ pft.evals[e].assignSymbol = sym}}

\* After the analysis of a unit, the label set of each symbol holds exactly
\* the labels assigned to it in the unit.
LabelSetsExact ==
  \A u \in 1..Len(pft.units) :
    pft.units[u].exited =>
      \A sym \in AssignSymbols : LabelSet(u, sym) = AssignedLabels(u, sym)

\* C20 as stated: assigned GOTO and ASSIGN statements are both marked
\* unstructured, and the label sets are exact.
AssignAndAssignedGotoUnstructured ==
  /\ \A e \in AssignedGotoStmts \cup AssignStmts : pft.evals[e].isUnstructured
  /\ LabelSetsExact

\* C20 amended: an assigned GOTO statement is marked unstructured; an ASSIGN
\* statement is marked only as the target of a branch into its construct, by
\* markBranchTarget; the label sets are exact.
AssignedGotoUnstructured ==
  /\ \A e \in AssignedGotoStmts : pft.evals[e].isUnstructured
  /\ \A e \in AssignStmts :
       pft.evals[e].isUnstructured =>
         \E k \in 1..Len(pft.calls) :
           /\ pft.calls[k].target = e
           /\ e \in pft.calls[k].after \ pft.calls[k].before
  /\ LabelSetsExact

\* C20 witness: an analyzed unit with an assigned GOTO, and two ASSIGN
\* statements that give one symbol two labels and stay structured.
TwoLabelsAssigned ==
  /\ AssignedGotoStmts # {}
  /\ \E e1, e2 \in AssignStmts :
       /\ pft.evals[e1].assignSymbol = pft.evals[e2].assignSymbol
       /\ pft.evals[e1].v # pft.evals[e2].v
       /\ ~pft.evals[e1].isUnstructured /\ ~pft.evals[e2].isUnstructured
       /\ LabelSet(OwnerOfEval(e1), pft.evals[e1].assignSymbol) =
            {pft.evals[e1].v, pft.evals[e2].v}

\* The statements of construct c, in order.
StmtsOf(c) == evaluationList(pft.evals, ParentVariant("Eval", c))

\* The ELSE IF and ELSE statements of construct c that follow its k-th
\* statement, as positions in StmtsOf(c).
LaterBranches(c, k) ==
  {j \in (k + 1)..Len(StmtsOf(c)) :
     pft.evals[StmtsOf(c)[j]].kind \in {"ElseIfStmt", "ElseStmt"}}

\* The analyzed IF constructs.
IfConstructs ==
  {c \in ConstructEvals : pft.evals[c].kind = "IfConstruct" /\ Analyzed(c)}

\* C22: in an analyzed IF construct, the control successor of the IF THEN
\* statement and of each ELSE IF statement is the next ELSE IF or ELSE
\* statement of the same construct, or the construct exit when none follows;
\* every ELSE IF and ELSE statement starts a new block.  An IF construct nested
\* in a branch has statements of its own only, so the chain skips it.
IfChainLinked ==
  \A c \in IfConstructs : \A k \in 1..Len(StmtsOf(c)) :
    /\ pft.evals[StmtsOf(c)[k]].kind \in {"IfThenStmt", "ElseIfStmt"} =>
         pft.evals[StmtsOf(c)[k]].controlSuccessor =
           IF LaterBranches(c, k) = {} THEN pft.evals[c].constructExit
           ELSE StmtsOf(c)[CHOOSE j \in LaterBranches(c, k) :
                             \A i \in LaterBranches(c, k) : j <= i]
    /\ pft.evals[StmtsOf(c)[k]].kind \in {"ElseIfStmt", "ElseStmt"} =>
         pft.evals[StmtsOf(c)[k]].isNewBlock

\* C22 witness: an analyzed IF construct with an IF construct nested in its
\* first branch and an ELSE IF or ELSE statement after it, which is the
\* control successor of the outer IF THEN statement.
NestedIfInChain ==
  \E c \in IfConstructs : \E k \in 2..Len(StmtsOf(c)) :
    /\ pft.evals[StmtsOf(c)[k]].kind = "IfConstruct"
    /\ LaterBranches(c, 1) # {}
    /\ \A j \in LaterBranches(c, 1) : j > k
    /\ pft.evals[StmtsOf(c)[1]].controlSuccessor \in
         {StmtsOf(c)[j] : j \in LaterBranches(c, 1)}

\* The analyzed I/O statements.
IoEvals == {e \in Evals : pft.evals[e].kind \in IoStmts /\ Analyzed(e)}

\* The formats analyzeIoBranches looks at for statement e: its own and those
\* of its specifier list.
FormatsOf(e) ==
  {pft.evals[e].format}
    \cup {pft.evals[e].specs[i].format :
            i \in {i \in 1..Len(pft.evals[e].specs) : pft.evals[e].specs[i].spec = "Format"}}

\* Each ERR=, EOR= and END= label of an I/O statement is a branch target: the
\* labelled Evaluation starts a new block and the statement is unstructured.
IoLabelsAreBranchTargets ==
  \A e \in IoEvals : \A l \in labelsNamed(pft.evals[e]) :
    /\ pft.evals[pft.units[OwnerOfEval(e)].labelEvaluationMap[l]].isNewBlock
    /\ pft.evals[e].isUnstructured

\* Statement e was marked unstructured as the target of a branch.
MarkedAsTarget(e) ==
  \E k \in 1..Len(pft.calls) :
    pft.calls[k].target = e /\ e \in pft.calls[k].after \ pft.calls[k].before

\* C21 as stated: the labels are branch targets, an I/O statement whose format
\* is a runtime expression (a variable, not a literal) is unstructured, and one
\* with neither label nor runtime format is not marked.
IoRuntimeFormatUnstructured ==
  /\ IoLabelsAreBranchTargets
  /\ \A e \in IoEvals :
       IF FormatsOf(e) \cap {"character", "integer"} # {}
       THEN pft.evals[e].isUnstructured
       ELSE (labelsNamed(pft.evals[e]) = {} /\ pft.evals[e].isUnstructured)
              => MarkedAsTarget(e)

\* C21 amended: the labels are branch targets, an I/O statement whose format
\* is an expression of type INTEGER (an assigned format) is unstructured, and
\* one with neither label nor such a format is marked only as the target of a
\* branch.
IoAssignedFormatUnstructured ==
  /\ IoLabelsAreBranchTargets
  /\ \A e \in IoEvals :
       IF "integer" \in FormatsOf(e)
       THEN pft.evals[e].isUnstructured
       ELSE (labelsNamed(pft.evals[e]) = {} /\ pft.evals[e].isUnstructured)
              => MarkedAsTarget(e)

\* C21 witness: analyzed I/O statements with an ERR= label, with an assigned
\* format, and with a character variable as format that stayed structured.
IoStatementsAnalyzed ==
  /\ \E e \in IoEvals : labelsNamed(pft.evals[e]) # {}
  /\ \E e \in IoEvals : "integer" \in FormatsOf(e) /\ labelsNamed(pft.evals[e]) = {}
  /\ \E e \in IoEvals : "character" \in FormatsOf(e) /\ ~pft.evals[e].isUnstructured

-----------------------------------------------------------------------------
(* Claims about units and entry points *)

FunctionUnits ==
  {u \in 1..Len(pft.units) : pft.units[u].kind \notin {"Module", "BlockData"}}

\* The evaluation list of unit u.
UnitList(u) == evaluationList(pft.evals, ParentVariant("Function", u))

\* The terminals endFunctionBody made: a CONTINUE with no source position.
IsSyntheticTerminal(e) ==
  pft.evals[e].kind = "ContinueStmt" /\ pft.evals[e].position = ""

\* C4: an exited unit's evaluation list is not empty and ends in a CONTINUE;
\* a synthetic terminal stands only at the head of its list or behind an
\* Evaluation that is no CONTINUE, so a list holds at most one; and a unit
\* without statements is exited with exactly one Evaluation.
UnitEndsInOneTerminal ==
  \A u \in FunctionUnits :
    LET list == UnitList(u)
        synthetic == {k \in 1..Len(list) : IsSyntheticTerminal(list[k])}
    IN /\ pft.units[u].exited =>
            /\ list # <<>>
            /\ pft.evals[Last(list)].kind = "ContinueStmt"
       /\ \A k \in synthetic : k = 1 \/ pft.evals[list[k - 1]].kind # "ContinueStmt"
       /\ Cardinality(synthetic) <= 1
       /\ (pft.units[u].exited /\ \A k \in 1..Len(list) : IsSyntheticTerminal(list[k]))
            => Len(list) = 1

\* C4 witness: an exited host unit whose body was closed twice, once when its
\* internal subprogram was entered and once at its own exit, and an exited
\* unit that has no statement of its own.
HostClosedTwice ==
  \E u \in FunctionUnits :
    /\ pft.units[u].exited
    /\ \E n \in nestedFunctions(pft.units, u) :
         /\ pft.units[n].exited
         /\ Len(UnitList(n)) = 1
    /\ Len(UnitList(u)) > 1
    /\ IsSyntheticTerminal(Last(UnitList(u)))

\* The dummy arguments of the entry-th entry point of unit u, alternate return
\* specifiers left out.
EntryDummies(u, entry) ==
  Range(pft.units[u].entryPointList[entry].first.dummyArgs) \ {"*"}

\* C7: after a unit with several entry points is exited, its
\* nonUniversalDummyArguments lists, once each, the dummy arguments that some
\* but not all entry points have; a unit with one entry point has an empty
\* list; and the active entry of an exited unit is entry 0.
NonUniversalDummiesExact ==
  \A u \in FunctionUnits :
    LET unit == pft.units[u]
        entries == 1..Len(unit.entryPointList)
        listed == unit.nonUniversalDummyArguments
    IN pft.units[u].exited =>
         /\ unit.activeEntry = 0
         /\ Len(unit.entryPointList) = 1 => listed = <<>>
         /\ Len(unit.entryPointList) > 1 =>
              /\ \A arg \in DummyArgs :
                   arg \in Range(listed) <=>
                     /\ \E entry \in entries : arg \in EntryDummies(u, entry)
                     /\ \E entry \in entries : arg \notin EntryDummies(u, entry)
              /\ Range(listed) \subseteq DummyArgs
              /\ \A i, j \in 1..Len(listed) : listed[i] = listed[j] => i = j

\* C7 witness: an exited unit with three entry points, one dummy argument that
\* two of them have, and an alternate return specifier.
ThreeEntriesAnalyzed ==
  \E u \in FunctionUnits :
    /\ pft.units[u].exited
    /\ Len(pft.units[u].entryPointList) = 3
    /\ \E arg \in Range(pft.units[u].nonUniversalDummyArguments) :
         Cardinality({entry \in 1..3 : arg \in EntryDummies(u, entry)}) = 2
    /\ \E entry \in 1..3 : "*" \in Range(pft.units[u].entryPointList[entry].first.dummyArgs)

EntryStmts(b) == {e \in 1..Len(b.evals) : b.evals[e].kind = "EntryStmt"}

OwnerOf(b, e) == getOwningProcedure(b.evals, b.evals[e].parentVariant)

\* The action and construct statements a step appended to unit u.
AppendedTo(u) ==
  {p \in (Len(pft.evals) + 1)..Len(pft'.evals) :
     /\ isActionStmt(pft'.evals[p].kind) \/ isConstructStmt(pft'.evals[p].kind)
     /\ OwnerOf(pft', p) = u}

\* No executable statement of the unit stands between ENTRY statements e1 and e2.
Consecutive(e1, e2) ==
  /\ OwnerOf(pft, e1) = OwnerOf(pft, e2)
  /\ \A p \in e1..e2 :
       (isActionStmt(pft.evals[p].kind) \/ isConstructStmt(pft.evals[p].kind))
         => OwnerOf(pft, p) # OwnerOf(pft, e1)

EntriesLinked ==
  /\ \A e \in EntryStmts(pft) :
       pft.units[OwnerOf(pft, e)].exited => pft.evals[e].lexicalSuccessor # 0
  /\ \A e1, e2 \in EntryStmts(pft) :
       (e1 < e2 /\ Consecutive(e1, e2) /\ pft.evals[e2].lexicalSuccessor # 0)
         => pft.evals[e1].lexicalSuccessor = pft.evals[e2].lexicalSuccessor

EntryLinkStep ==
  \A e \in EntryStmts(pft) :
    /\ pft.evals[e].lexicalSuccessor # 0
         => pft'.evals[e].lexicalSuccessor = pft.evals[e].lexicalSuccessor
    /\ pft.evals[e].lexicalSuccessor = 0
         => \A p \in AppendedTo(OwnerOf(pft, e)) : pft'.evals[e].lexicalSuccessor = p

\* C8: an ENTRY statement without lexical successor gets the next action or
\* construct statement appended to its unit as its successor, consecutive
\* ENTRY statements get the same one, a link once set is never changed, and
\* in an exited unit every ENTRY statement has a lexical successor.
EntryLinksToNextStatement == [](EntriesLinked) /\ [][EntryLinkStep]_vars

\* C8 witness: two consecutive ENTRY statements linked to the statement that
\* followed them, with a later statement appended behind it.
TwoEntriesLinked ==
  \E e1, e2 \in EntryStmts(pft) :
    /\ e1 < e2
    /\ Consecutive(e1, e2)
    /\ pft.evals[e1].lexicalSuccessor # 0
    /\ pft.evals[e1].lexicalSuccessor = pft.evals[e2].lexicalSuccessor
    /\ pft.evals[pft.evals[e1].lexicalSuccessor].lexicalSuccessor # 0

\* The depth recorded in the Nominal variable of symbol s.
DepthOf(s) == VarList[PosOf(s)].depth

\* C23: among the variables of equal depth in the final allocation order, the
\* relative order is the iteration order of the symbol table: when a comes
\* before b in the scope and both have the same depth, the variable of a
\* comes before the variable of b, also when b was first reached as a
\* dependency of an earlier symbol.
EqualDepthKeepsScopeOrder ==
  symPc = "done"
    => \A a, b \in Syms :
         (/\ a < b
          /\ Materialized(a)
          /\ Materialized(b)
          /\ DepthOf(a) = DepthOf(b))
           => PosOf(a) < PosOf(b)

\* The number of symbols the expressions of the object symbols of S reference.
RECURSIVE RefCount(_)
RefCount(S) ==
  IF S = {} THEN 0
  ELSE LET s == CHOOSE x \in S : TRUE
       IN (IF symtab[s].kind = "object" THEN Len(symtab[s].deps) ELSE 0)
            + RefCount(S \ {s})

\* C24: the depth analysis comes to an end for every scope, scopes whose
\* length, bound or initializer expressions reference each other cyclically
\* included.  When processSymbolTable has returned, analyze has been called
\* once per symbol of the scope and once per reference of an object symbol
\* and no more, every symbol has been entered, the body of analyze has run at
\* most once for every symbol, and every object symbol has exactly one
\* Nominal variable in the list while every other symbol has none.
AnalysisEndsWithOneVariableEach ==
  symPc = "done"
    => /\ sdd.calls = Len(symtab) + RefCount(Syms)
       /\ sdd.seen = Syms
       /\ \A s \in Syms :
            /\ sdd.bodies[s] <= 1
            /\ Cardinality(NominalAt(s)) = (IF symtab[s].kind = "object" THEN 1 ELSE 0)
       /\ Len(VarList) = Cardinality({s \in Syms : symtab[s].kind = "object"})

\* C24 witness: an analyzed scope of four objects in which two symbols
\* reference each other and a third references both.
CyclicScopeAnalyzed ==
  /\ symPc = "done"
  /\ \A s \in Syms : symtab[s].kind = "object" /\ Materialized(s)
  /\ \E a, b, c \in Syms :
       /\ a # b
       /\ a \in Range(symtab[b].deps)
       /\ b \in Range(symtab[a].deps)
       /\ symtab[c].deps = <<a, b>>

\* The fields of an Evaluation that branch analysis may set.
AnalysisFields ==
  {"controlSuccessor", "constructExit", "isNewBlock", "isUnstructured", "localBlocks"}

\* The Evaluation with the fields of branch analysis left out.
Skeleton(eval) == [f \in (DOMAIN eval) \ AnalysisFields |-> eval[f]]

\* A step that ends a function-like unit: the terminal is appended, then the
\* unit's Evaluations are analyzed.
UnitExitStep ==
  /\ pft.parentVariantStack # <<>>
  /\ Last(pft.parentVariantStack).tag = "Function"
  /\ Len(pft'.parentVariantStack) < Len(pft.parentVariantStack)

\* C25: branch analysis changes links and flags of the Evaluations that exist
\* when it starts and nothing else.  From the unit as endFunctionBody leaves
\* it to the unit after the exit, the number of Evaluations is the same, and
\* every Evaluation keeps its kind, its list and position in the list, its
\* parent construct, lexical successor, label and print index; only control
\* successor, construct exit, new-block flag, unstructured flag and reserved
\* local blocks may differ.
AnalysisKeepsEvaluations ==
  [][UnitExitStep
       => /\ Len(pft'.evals) = Len(endFunctionBody(pft).evals)
          /\ \A e \in 1..Len(pft'.evals) :
               Skeleton(pft'.evals[e]) = Skeleton(endFunctionBody(pft).evals[e])]_vars

\* C25 witness: an exited unit in which the analysis has set a control
\* successor, a construct exit, a new-block flag and an unstructured flag.
AnalysisSetLinksAndFlags ==
  /\ \E u \in 1..Len(pft.units) : pft.units[u].exited
  /\ \E e \in 1..Len(pft.evals) : pft.evals[e].controlSuccessor # 0
  /\ \E e \in 1..Len(pft.evals) : pft.evals[e].constructExit # 0
  /\ \E e \in 1..Len(pft.evals) : pft.evals[e].isNewBlock /\ pft.evals[e].label # 0
  /\ \E e \in 1..Len(pft.evals) :
       pft.evals[e].isUnstructured /\ pft.evals[e].parentConstruct # 0

\* The action and construct statements of unit u, at every nesting level.
LexicalEvals(u) ==
  {e \in 1..Len(pft.evals) :
     /\ isActionStmt(pft.evals[e].kind) \/ isConstructStmt(pft.evals[e].kind)
     /\ OwnerOf(pft, e) = u}

\* The statements of unit u appended after e, and the first of them (0: none).
LaterLexical(u, e) == {x \in LexicalEvals(u) : x > e}
NextLexical(u, e) ==
  IF LaterLexical(u, e) = {} THEN 0
  ELSE CHOOSE x \in LaterLexical(u, e) : \A y \in LaterLexical(u, e) : x <= y

\* C26: in every function-like unit the action and construct statement
\* Evaluations form one lexical chain in the order they were appended, at
\* every nesting level: the k-th of the unit has print index k, counted from
\* 1 in each unit, its lexical successor is the (k+1)-th of the same unit,
\* and the last of the unit, the terminal once the unit has ended, has none.
LexicalChainPerUnit ==
  \A u \in FunctionUnits :
    \A e \in LexicalEvals(u) :
      /\ pft.evals[e].printIndex = Cardinality({x \in LexicalEvals(u) : x <= e})
      /\ pft.evals[e].lexicalSuccessor = NextLexical(u, e)

\* C26 witness: a host unit and its internal subprogram, both ended, the host
\* with statements inside a construct and its terminal, the subprogram
\* numbered from 1 again right behind the host's terminal.
TwoUnitsNumbered ==
  \E u, n \in FunctionUnits :
    /\ pft.units[u].exited
    /\ pft.units[n].exited
    /\ pft.units[n].functionList = u
    /\ \E e \in LexicalEvals(u) :
         pft.evals[e].parentConstruct # 0 /\ pft.evals[e].printIndex = 2
    /\ Cardinality(LexicalEvals(u)) >= 3
    /\ \E e \in LexicalEvals(n) :
         pft.evals[e].printIndex = 1 /\ e > 1 /\ pft.evals[e - 1].lexicalSuccessor = 0

\* The innermost function-like or module-like unit a parent variant lies in
\* (0: none is open).
InnermostUnit(parentVariant) ==
  IF parentVariant.tag = "Module" THEN parentVariant.id
  ELSE getOwningProcedure(pft.evals, parentVariant)

\* Every function-like unit is in the nested-function list of the innermost
\* unit that was open at its entry, or among the program's units.
UnitsFiledUnderOpenUnit ==
  \A u \in FunctionUnits :
    pft.units[u].functionList = InnermostUnit(pft.units[u].parentVariant)

\* The exit of a unit or construct: the node entered last is closed.
NodeExitStep == Len(pft'.entries) < Len(pft.entries)

\* C27: over well-nested walks of programs, modules, function-like units,
\* block data and constructs, a function-like unit is appended to the
\* nested-function list of the innermost function-like or module-like unit
\* open at its entry, or to the program's units when none is open; and after
\* each exit of a unit or construct the parent stack, the evaluation-list
\* stack, the construct stack, the current function list and the current
\* label map are the ones in effect just before the matching entry.
ExitRestoresFocus ==
  /\ [](UnitsFiledUnderOpenUnit)
  /\ [][NodeExitStep => focus(pft') = Last(pft.entries)]_vars

\* C27 witness: a module with a subroutine that has an internal subprogram,
\* followed by a program unit outside the module, everything closed again.
NestedUnitsClosed ==
  /\ pft.entries = <<>>
  /\ \E m, f, g, h \in 1..Len(pft.units) :
       /\ pft.units[m].kind = "Module"
       /\ pft.units[f].functionList = m
       /\ pft.units[g].functionList = f
       /\ h > g
       /\ pft.units[h].functionList = 0
       /\ pft.units[h].exited

(* Runtime function selection: Intrinsics.cpp 193-462 *)

MaxRuntimeArgs == 2       \* arguments of a runtime function
MaxRuntimeFunctions == 2  \* entries of the runtime tables that are searched

\* Types of arguments and results: an integer, two reals of different width
\* and nothing else (complex, character and logical types convert to none of
\* these either).
RuntimeTypes == {"i32", "f32", "f64"}
RuntimeResultTypes == {"f32", "f64"}
isa_real(t) == t \in {"f32", "f64"}
isa_integer(t) == t \in {"i32"}
getFloatingPointWidth(t) == IF t = "f32" THEN 32 ELSE 64

\* The argument lists: one argument of any type, or several f32.
RuntimeInputs ==
  {i \in SeqsUpTo(RuntimeTypes, MaxRuntimeArgs) \ {<<>>} :
     Len(i) > 1 => \A k \in 1..Len(i) : i[k] = "f32"}

\* mlir::FunctionType: argument types and one result type.
RuntimeFunctionTypes ==
  {[inputs |-> i, results |-> <<r>>] : i \in RuntimeInputs, r \in RuntimeResultTypes}

RuntimeNames == {"sin", "cos"}
MathRuntimeVersions == {"fastVersion", "relaxedVersion", "preciseVersion", "llvmOnly"}

\* struct RuntimeFunction: the key is the intrinsic's name.
RuntimeFunctions == {[key |-> k, type |-> t] : k \in RuntimeNames, t \in RuntimeFunctionTypes}
NoRuntimeFunction == [key |-> "", type |-> [inputs |-> <<>>, results |-> <<>>]]

\* FunctionDistance::conversionBetweenTypes
conversionBetweenTypes(from, to) ==
  CASE from = to -> "None"
    [] from # to /\ isa_integer(from) /\ isa_integer(to) -> "Extend"
    [] from # to /\ isa_real(from) /\ isa_real(to) ->
         IF getFloatingPointWidth(from) > getFloatingPointWidth(to)
         THEN "Narrow" ELSE "Extend"
    [] OTHER -> "Forbidden"

\* Indexes into FunctionDistance::conversions.
narrowingArg == 1
extendingResult == 2
nonExtendingResult == 3
nonNarrowingArg == 4

\* FunctionDistance::addArgumentDistance
addArgumentDistance(d, from, to) ==
  CASE conversionBetweenTypes(from, to) = "Forbidden" -> [d EXCEPT !.infinite = TRUE]
    [] conversionBetweenTypes(from, to) = "None" -> d
    [] conversionBetweenTypes(from, to) = "Narrow" ->
         [d EXCEPT !.conversions[narrowingArg] = @ + 1]
    [] conversionBetweenTypes(from, to) = "Extend" ->
         [d EXCEPT !.conversions[nonNarrowingArg] = @ + 1]

\* FunctionDistance::addResultDistance
addResultDistance(d, from, to) ==
  CASE conversionBetweenTypes(from, to) = "Forbidden" -> [d EXCEPT !.infinite = TRUE]
    [] conversionBetweenTypes(from, to) = "None" -> d
    [] conversionBetweenTypes(from, to) = "Narrow" ->
         [d EXCEPT !.conversions[nonExtendingResult] = @ + 1]
    [] conversionBetweenTypes(from, to) = "Extend" ->
         [d EXCEPT !.conversions[extendingResult] = @ + 1]

\* FunctionDistance(): the distance a search starts from.
DefaultFunctionDistance == [infinite |-> TRUE, conversions |-> <<0, 0, 0, 0>>]

RECURSIVE addArgumentDistances(_, _, _, _)
addArgumentDistances(d, from, to, i) ==
  IF i > Len(from) THEN d
  ELSE addArgumentDistances(addArgumentDistance(d, from[i], to[i]), from, to, i + 1)

RECURSIVE addResultDistances(_, _, _, _)
addResultDistances(d, from, to, i) ==
  IF i > Len(from) THEN d
  ELSE addResultDistances(addResultDistance(d, to[i], from[i]), from, to, i + 1)

\* FunctionDistance(from, to)
FunctionDistance(from, to) ==
  IF Len(from.results) # Len(to.results) \/ Len(from.inputs) # Len(to.inputs)
  THEN [infinite |-> TRUE, conversions |-> <<0, 0, 0, 0>>]
  ELSE addResultDistances(
         addArgumentDistances([infinite |-> FALSE, conversions |-> <<0, 0, 0, 0>>],
                              from.inputs, to.inputs, 1),
         from.results, to.results, 1)

\* std::lexicographical_compare on two arrays of the same size
RECURSIVE lexicographical_compare(_, _, _)
lexicographical_compare(a, b, i) ==
  IF i > Len(a) THEN FALSE
  ELSE IF a[i] < b[i] THEN TRUE
  ELSE IF b[i] < a[i] THEN FALSE
  ELSE lexicographical_compare(a, b, i + 1)

\* FunctionDistance::isSmallerThan
isSmallerThan(self, d) ==
  d.infinite
    \/ (~self.infinite /\ lexicographical_compare(self.conversions, d.conversions, 1))

\* FunctionDistance::isLosingPrecision
isLosingPrecision(d) ==
  d.conversions[narrowingArg] # 0 \/ d.conversions[extendingResult] # 0

\* searchFunctionInLibrary from entry i of the table on: the entries whose key
\* is the name are visited in table order.
RECURSIVE searchFunctionInLibrary(_, _, _, _, _)
searchFunctionInLibrary(lib, name, funcType, search, i) ==
  IF i > Len(lib) THEN search
  ELSE IF lib[i].key # name
       THEN searchFunctionInLibrary(lib, name, funcType, search, i + 1)
  ELSE IF funcType = lib[i].type THEN [search EXCEPT !.exactMatch = lib[i]]
  ELSE IF isSmallerThan(FunctionDistance(funcType, lib[i].type), search.bestMatchDistance)
       THEN searchFunctionInLibrary(
              lib, name, funcType,
              [search EXCEPT !.bestNearMatch = lib[i],
                             !.bestMatchDistance = FunctionDistance(funcType, lib[i].type)],
              i + 1)
  ELSE searchFunctionInLibrary(lib, name, funcType, search, i + 1)

\* The outcomes of getRuntimeFunction: the function returned, llvm::None, or
\* the failed assertion of a build with assertions.
RuntimeResult(result, impl) == [name |-> "getRuntimeFunction", result |-> result, impl |-> impl]

\* getRuntimeFunction: the pgmath table of the selected version, then the
\* llvm intrinsics.  The outcomes are the ones of builds with and without
\* assertions.
getRuntimeFunction(version, pgmath, llvmIntrinsics, name, funcType) ==
  LET start == [exactMatch |-> NoRuntimeFunction, bestNearMatch |-> NoRuntimeFunction,
                bestMatchDistance |-> DefaultFunctionDistance]
      first == IF version # "llvmOnly"
               THEN searchFunctionInLibrary(pgmath, name, funcType, start, 1)
               ELSE start
      second == IF first.exactMatch # NoRuntimeFunction THEN first
                ELSE searchFunctionInLibrary(llvmIntrinsics, name, funcType, first, 1)
  IN IF second.exactMatch # NoRuntimeFunction
     THEN {RuntimeResult("exact", second.exactMatch)}
     ELSE IF second.bestNearMatch # NoRuntimeFunction
          THEN IF isLosingPrecision(second.bestMatchDistance)
               THEN {RuntimeResult("near", second.bestNearMatch),
                     RuntimeResult("assertion failure", NoRuntimeFunction)}
               ELSE {RuntimeResult("near", second.bestNearMatch)}
          ELSE {RuntimeResult("none", NoRuntimeFunction)}

\* A call of getRuntimeFunction.
GetRuntimeFunction ==
  /\ op = NoOp
  /\ \E result \in getRuntimeFunction(opArgs.version, opArgs.pgmath, opArgs.llvmIntrinsics,
                                      opArgs.name, opArgs.funcType) :
       op' = result
  /\ verdict' = "returned"
  /\ UNCHANGED <<opArgs, diag, varsSym, pft>>

\* The tables of one run: the pgmath table of the selected math runtime
\* version and the llvm intrinsics, MaxRuntimeFunctions entries in all.
InitRuntime ==
  /\ IdleSym
  /\ IdlePFT
  /\ op = NoOp
  /\ verdict = "unverified"
  /\ diag = ""
  /\ \E entries \in SeqsUpTo(RuntimeFunctions, MaxRuntimeFunctions),
        split \in 0..MaxRuntimeFunctions,
        version \in MathRuntimeVersions,
        funcType \in RuntimeFunctionTypes :
       /\ split <= Len(entries)
       /\ opArgs = [version |-> version,
                    pgmath |-> SubSeq(entries, 1, split),
                    llvmIntrinsics |-> SubSeq(entries, split + 1, Len(entries)),
                    name |-> "sin",
                    funcType |-> funcType]

SpecRuntime == InitRuntime /\ [][GetRuntimeFunction]_vars

\* The entries of the searched tables that have the sought name, in the order
\* they are searched.
SearchedTables ==
  IF opArgs.version = "llvmOnly" THEN opArgs.llvmIntrinsics
  ELSE opArgs.pgmath \o opArgs.llvmIntrinsics
Candidates == {f \in Range(SearchedTables) : f.key = opArgs.name}
ExactMatches == {f \in Candidates : f.type = opArgs.funcType}
DistanceTo(f) == FunctionDistance(opArgs.funcType, f.type)

\* C28: getRuntimeFunction returns an exact type match whenever the searched
\* tables hold one; otherwise it returns a near match only if that candidate's
\* distance from the sought type is finite and has no narrowing of an argument
\* and no extending of a result, and it returns nothing when every candidate
\* of the name has an infinite distance.
RuntimeMatchExactOrSafe ==
  verdict = "returned"
    => /\ ExactMatches # {} => (op.result = "exact" /\ op.impl \in ExactMatches)
       /\ (ExactMatches = {} /\ op.result # "assertion failure")
            => /\ op.result \in {"near", "none"}
               /\ op.result = "near"
                    => /\ op.impl \in Candidates
                       /\ ~DistanceTo(op.impl).infinite
                       /\ ~isLosingPrecision(DistanceTo(op.impl))
               /\ (\A f \in Candidates : DistanceTo(f).infinite) => op.result = "none"

(* GlobalOp builders: FIROps.cpp 591-637 *)

\* The arguments the build overloads are called with.  "" is the null
\* Attribute or StringAttr.
GlobalBuildArgs ==
  [name : {"a", "b"}, isConstant : BOOLEAN, type : {"i32", "f32"},
   initialVal : {"", "1", "2"}, linkage : {"", "internal", "common"},
   attrs : {<<>>, <<"extra">>}]

\* GlobalOp::build(builder, result, name, isConstant, type, initialVal,
\* linkage, attrs): the attributes of the operation state.
buildGlobalOp(name, isConstant, type, initialVal, linkage, attrs) ==
  [name |-> "fir.global",
   attrs |-> [n \in {"type", "sym_name", "symref"}
                      \cup (IF isConstant THEN {"constant"} ELSE {})
                      \cup (IF initialVal # "" THEN {"initVal"} ELSE {})
                      \cup (IF linkage # "" THEN {"linkage"} ELSE {})
                      \cup Range(attrs)
                |-> CASE n = "type" -> type
                      [] n = "sym_name" -> name
                      [] n = "symref" -> name
                      [] n = "constant" -> "unit"
                      [] n = "initVal" -> initialVal
                      [] n = "linkage" -> linkage
                      [] OTHER -> "unit"],
   regions |-> 1]

\* The six overloads, in the order of the source; each takes from the
\* arguments the ones in its parameter list.
GlobalBuildOverloads ==
  {"name, isConstant, type, initialVal, linkage, attrs",
   "name, type, initialVal, linkage, attrs",
   "name, isConstant, type, linkage, attrs",
   "name, type, linkage, attrs",
   "name, isConstant, type, attrs",
   "name, type, attrs"}

\* The overloads that have an initialVal parameter.
InitialValueOverloads ==
  {"name, isConstant, type, initialVal, linkage, attrs",
   "name, type, initialVal, linkage, attrs"}

build(overload, a) ==
  CASE overload = "name, isConstant, type, initialVal, linkage, attrs" ->
         buildGlobalOp(a.name, a.isConstant, a.type, a.initialVal, a.linkage, a.attrs)
    [] overload = "name, type, initialVal, linkage, attrs" ->
         buildGlobalOp(a.name, FALSE, a.type, "", a.linkage, a.attrs)
    [] overload = "name, isConstant, type, linkage, attrs" ->
         buildGlobalOp(a.name, a.isConstant, a.type, "", a.linkage, a.attrs)
    [] overload = "name, type, linkage, attrs" ->
         buildGlobalOp(a.name, FALSE, a.type, "", a.linkage, a.attrs)
    [] overload = "name, isConstant, type, attrs" ->
         buildGlobalOp(a.name, a.isConstant, a.type, "", "", a.attrs)
    [] overload = "name, type, attrs" ->
         buildGlobalOp(a.name, FALSE, a.type, "", "", a.attrs)

\* A call of one of the overloads.
BuildGlobalOp ==
  /\ op = NoOp
  /\ \E overload \in GlobalBuildOverloads :
       /\ op' = build(overload, opArgs)
       /\ diag' = overload
  /\ verdict' = "built"
  /\ UNCHANGED <<opArgs, varsSym, pft>>

InitGlobalBuild ==
  /\ IdleSym
  /\ IdlePFT
  /\ op = NoOp
  /\ verdict = "unverified"
  /\ diag = ""
  /\ opArgs \in GlobalBuildArgs

SpecGlobalBuild == InitGlobalBuild /\ [][BuildGlobalOp]_vars

\* The attributes with the constant marker taken out.
WithoutConstant(attrs) == [n \in (DOMAIN attrs) \ {"constant"} |-> attrs[n]]

\* The overload with the same parameters and isConstant in addition.
ConstantOverload(overload) ==
  CASE overload = "name, type, initialVal, linkage, attrs" ->
         "name, isConstant, type, initialVal, linkage, attrs"
    [] overload = "name, type, linkage, attrs" -> "name, isConstant, type, linkage, attrs"
    [] overload = "name, type, attrs" -> "name, isConstant, type, attrs"
    [] OTHER -> overload

\* C29: every build overload that has an initial-value parameter stores a
\* non-null initial value it is given as the initVal attribute of the
\* operation, and an overload without isConstant gives the attributes its
\* counterpart with isConstant gives for the same arguments, the constant
\* marker apart.
BuildStoresInitialValue ==
  verdict = "built"
    => /\ (diag \in InitialValueOverloads /\ opArgs.initialVal # "")
            => /\ "initVal" \in DOMAIN op.attrs
               /\ op.attrs["initVal"] = opArgs.initialVal
       /\ WithoutConstant(op.attrs)
            = WithoutConstant(build(ConstantOverload(diag), opArgs).attrs)

\* The analyzed DO constructs that are marked unstructured.
UnstructuredDoConstructs ==
  {c \in ConstructEvals :
     pft.evals[c].kind = "DoConstruct" /\ Analyzed(c) /\ pft.evals[c].isUnstructured}

\* C30: after branch analysis of a unit, every DO construct that is marked
\* unstructured has its construct exit marked as a new block and at least one
\* local block reserved on its DO statement, whether the statement that made
\* the construct unstructured is analyzed before or after its END DO.
UnstructuredDoHasHeaderAndExitBlocks ==
  \A c \in UnstructuredDoConstructs :
    /\ pft.evals[c].constructExit # 0
    /\ pft.evals[pft.evals[c].constructExit].isNewBlock
    /\ pft.evals[DoStmtOf(c)].localBlocks >= 1

====
